---- MODULE Spec2Model ----
(***************************************************************************)
(* Model of kappanhang: the CI-V command/state engine (civControlStruct),  *)
(* the control stream (controlStream) and the early inline session loop of *)
(* main().                                                                 *)
(*                                                                         *)
(* Time is counted in units of 500 ms (the value of commandRetryTimeout).  *)
(* Byte strings are sequences of 0..255; Go index i is TLA+ index i+1.     *)
(***************************************************************************)
EXTENDS Integers, Sequences, FiniteSets, TLC

VARIABLES civ, lastOp, ret, ticks, calls, frames, ctl, m

vars == <<civ, lastOp, ret, ticks, calls, frames, ctl, m>>

(***************************************************************************)
(* Program constants (500 ms units for durations).                         *)
(***************************************************************************)
commandRetryTimeout == 1
statusPollInterval == 2
tuneTimeout == 60
pttTimeout == 360
txPollDelay == 2
Hour == 7200
civAddress == 164

(***************************************************************************)
(* Bounds of the model.                                                    *)
(***************************************************************************)
MaxTicks == 2
MaxCalls == 3
MaxFrames == 2
MaxTimers == 2
MaxDeinits == 2

Min(a, b) == IF a < b THEN a ELSE b

RECURSIVE Pow10(_)
Pow10(n) == IF n = 0 THEN 1 ELSE 10 * Pow10(n - 1)

(***************************************************************************)
(* civBands: freqFrom / freqTo of the 15 rows; the cached freq of each row *)
(* is the field civBands of the engine value (row i of Go is index i+1).   *)
(***************************************************************************)
civBandFrom == <<1800000, 3400000, 6900000, 9900000, 13900000, 17900000,
                 20900000, 24400000, 28000000, 50000000, 74800000, 108000000,
                 144000000, 420000000, 0>>
civBandTo == <<1999999, 4099999, 7499999, 10499999, 14499999, 18499999,
               21499999, 25099999, 29999999, 54000000, 107999999, 136999999,
               148000000, 450000000, 0>>

CmdNames == {"getPwr", "getS", "getOVF", "getSWR", "getTransmitStatus",
             "getPreamp", "getAGC", "getTuneStatus", "getVd", "getTS",
             "getRFGain", "getSQL", "getNR", "getNREnabled", "getSplit",
             "getMainVFOFreq", "getSubVFOFreq", "getMainVFOMode",
             "getSubVFOMode", "setPwr", "setRFGain", "setSQL", "setNR",
             "setMainVFOFreq", "setSubVFOFreq", "setMode", "setSubVFOMode",
             "setPTT", "setTune", "setDataMode", "setPreamp", "setAGC",
             "setNREnabled", "setTS", "setVFO", "setSplit"}

\* code of civOperatingModes[i] and of civFilters[i] (row i is index i+1).
civOperatingModes == <<0, 1, 2, 3, 4, 5, 6, 7, 8, 23>>
civFilters == <<1, 2, 3>>

splitModeOff == 0
splitModeOn == 1
splitModeDUPMinus == 2
splitModeDUPPlus == 3

\* The zero value of civCmd; time.Since of the zero sentAt is saturated.
civCmd == [pending |-> FALSE, sinceSent |-> commandRetryTimeout, name |-> "",
           cmd |-> <<>>]

\* A frame sent by the controller (0xE0) to the radio.
Cmd(body) == <<254, 254, civAddress, 224>> \o body \o <<253>>

\* A frame sent by the radio to the controller.
Reply(body) == <<254, 254, 224, civAddress>> \o body \o <<253>>

(***************************************************************************)
(* The zero value of civControlStruct.  Timers: pttTimers, tuneTimers and  *)
(* txPollTimers hold the remaining time of every running time.AfterFunc    *)
(* timer, oldest first; pttTimeoutTimer / tuneTimeoutTimer are the struct  *)
(* fields: "nil", "running" (it is the newest running timer) or "dead"     *)
(* (stopped or fired).  The since* fields are time.Since of the last*At    *)
(* fields, saturated at statusPollInterval.                                *)
(***************************************************************************)
civControlStruct ==
    [st |-> FALSE, deinitNeeded |-> FALSE, loopPc |-> "none",
     nextPendingCmdTimeout |-> Hour, selWait |-> 0, wake |-> FALSE,
     rcv |-> FALSE, panicked |-> FALSE, sent |-> <<>>,
     dinSending |-> 0, dinStuck |-> 0, dinReturned |-> 0,
     inSend |-> <<>>,
     vfoFreqFrameAge |-> statusPollInterval,
     pendingCmds |-> <<>>,
     cmds |-> [n \in CmdNames |-> civCmd],
     sStr |-> "",
     sinceS |-> statusPollInterval, sinceOVF |-> statusPollInterval,
     sinceSWR |-> statusPollInterval, sinceVFOFreq |-> statusPollInterval,
     pttTimeoutTimer |-> "nil", tuneTimeoutTimer |-> "nil",
     pttTimers |-> <<>>, tuneTimers |-> <<>>, txPollTimers |-> <<>>,
     civBands |-> [i \in 1..15 |-> 0],
     freq |-> 0, subFreq |-> 0, ptt |-> FALSE, tune |-> FALSE,
     pwrPercent |-> 0, rfGainPercent |-> 0, sqlPercent |-> 0,
     nrPercent |-> 0, nrEnabled |-> FALSE, operatingModeIdx |-> 0,
     dataMode |-> FALSE, filterIdx |-> 0, subOperatingModeIdx |-> 0,
     subDataMode |-> FALSE, subFilterIdx |-> 0, bandIdx |-> 0,
     preamp |-> 0, agc |-> 0, tsValue |-> 0, ts |-> 0,
     vfoBActive |-> FALSE, splitMode |-> splitModeOff]

(***************************************************************************)
(* Pending-command table primitives.  Every operator below takes the       *)
(* engine value c (a civControlStruct) and yields the value after the call.*)
(***************************************************************************)
initCmd(c, n, data) ==
    [c EXCEPT !.cmds[n] = [pending |-> FALSE, sinceSent |-> commandRetryTimeout,
                           name |-> n, cmd |-> data]]

\* Index of slot n in pendingCmds, 0 (Go: -1) when it is not there.
getPendingCmdIndex(c, n) ==
    IF \E i \in 1..Len(c.pendingCmds) : c.pendingCmds[i] = n
    THEN CHOOSE i \in 1..Len(c.pendingCmds) :
            /\ c.pendingCmds[i] = n
            /\ \A j \in 1..(i - 1) : c.pendingCmds[j] # n
    ELSE 0

removePendingCmd(c, n) ==
    LET c1 == [c EXCEPT !.cmds[n].pending = FALSE]
        index == getPendingCmdIndex(c1, n)
        last == Len(c1.pendingCmds)
    IN IF index = 0 THEN c1
       ELSE [c1 EXCEPT !.pendingCmds =
                SubSeq([c1.pendingCmds EXCEPT ![index] = c1.pendingCmds[last]],
                       1, last - 1)]

\* sendCmd without the getPendingCmdIndex test: appends on every send.
sendCmdAlwaysAppend(c, n) ==
    IF ~c.st THEN c
    ELSE LET c1 == [c EXCEPT !.cmds[n].pending = TRUE, !.cmds[n].sinceSent = 0,
                             !.pendingCmds = Append(@, n)]
         IN [c1 EXCEPT !.sent = Append(@, c1.cmds[n].cmd)]

\* c.rcv tells whether the engine loop is parked in its select, so that the
\* non-blocking send on newPendingCmdAdded finds a receiver.
sendCmd(c, n) ==
    IF ~c.st THEN c
    ELSE LET c1 == [c EXCEPT !.cmds[n].pending = TRUE, !.cmds[n].sinceSent = 0]
             c2 == IF getPendingCmdIndex(c1, n) = 0
                   THEN [c1 EXCEPT !.pendingCmds = Append(@, n),
                                   !.wake = @ \/ c1.rcv,
                                   !.rcv = FALSE]
                   ELSE c1
         IN [c2 EXCEPT !.sent = Append(@, c2.cmds[n].cmd)]

(***************************************************************************)
(* Frequency codec.                                                        *)
(***************************************************************************)
RECURSIVE decodeFreqDataFrom(_, _)
decodeFreqDataFrom(d, pos) ==
    IF d = <<>> THEN 0
    ELSE (Head(d) % 16) * Pow10(pos) + (Head(d) \div 16) * Pow10(pos + 1)
         + decodeFreqDataFrom(Tail(d), pos + 2)

decodeFreqData(d) == decodeFreqDataFrom(d, 0)

getDigit(v, n) == (v \div Pow10(n)) % 10

\* encodeFreqData storing each pair of digits as a binary number.
encodeFreqDataBinary(f) ==
    [i \in 1..5 |-> getDigit(f, 2 * i - 1) * 10 + getDigit(f, 2 * i - 2)]

\* getDigit divides a float64 n times by 10 and truncates; for v < 10^10 the
\* rounding of those divisions never reaches the next integer, so the result
\* is digit n of v.
encodeFreqData(f) ==
    [i \in 1..5 |-> getDigit(f, 2 * i - 1) * 16 + getDigit(f, 2 * i - 2)]

(***************************************************************************)
(* Getters.                                                                *)
(***************************************************************************)
get1(c, n, body) == sendCmd(initCmd(c, n, Cmd(body)), n)

getPwr(c) == get1(c, "getPwr", <<20, 10>>)
getPreamp(c) == get1(c, "getPreamp", <<22, 2>>)
getAGC(c) == get1(c, "getAGC", <<22, 18>>)
getVd(c) == get1(c, "getVd", <<21, 21>>)
getS(c) == get1(c, "getS", <<21, 2>>)
getOVF(c) == get1(c, "getOVF", <<26, 9>>)
getSWR(c) == get1(c, "getSWR", <<21, 18>>)
getTS(c) == get1(c, "getTS", <<16>>)
getRFGain(c) == get1(c, "getRFGain", <<20, 2>>)
getSQL(c) == get1(c, "getSQL", <<20, 3>>)
getNR(c) == get1(c, "getNR", <<20, 6>>)
getNREnabled(c) == get1(c, "getNREnabled", <<22, 64>>)
getSplit(c) == get1(c, "getSplit", <<15>>)

getTransmitStatus(c) ==
    get1(get1(c, "getTransmitStatus", <<28, 0>>), "getTuneStatus", <<28, 1>>)

getBothVFOFreq(c) ==
    get1(get1(c, "getMainVFOFreq", <<37, 0>>), "getSubVFOFreq", <<37, 1>>)

getBothVFOMode(c) ==
    get1(get1(c, "getMainVFOMode", <<38, 0>>), "getSubVFOMode", <<38, 1>>)

(***************************************************************************)
(* Setters.                                                                *)
(***************************************************************************)
\* setMainVFOFreq addressing the sub VFO (selector 01).
setMainVFOFreqAsSub(c, f) ==
    sendCmd(initCmd(c, "setMainVFOFreq", Cmd(<<37, 1>> \o encodeFreqData(f))),
            "setMainVFOFreq")

setMainVFOFreq(c, f) ==
    sendCmd(initCmd(c, "setMainVFOFreq", Cmd(<<37, 0>> \o encodeFreqData(f))),
            "setMainVFOFreq")

setSubVFOFreq(c, f) ==
    sendCmd(initCmd(c, "setSubVFOFreq", Cmd(<<37, 1>> \o encodeFreqData(f))),
            "setSubVFOFreq")

\* setPTT that arms no safety timer.
setPTTNoTimer(c, enable) ==
    sendCmd(initCmd(c, "setPTT", Cmd(<<28, 0, IF enable THEN 1 ELSE 0>>)),
            "setPTT")

\* time.AfterFunc(pttTimeout, ...): a new timer; the one the field pointed
\* to keeps running.
setPTT(c, enable) ==
    LET c1 == IF enable
              THEN [c EXCEPT !.pttTimers = Append(@, pttTimeout),
                             !.pttTimeoutTimer = "running"]
              ELSE c
        b == IF enable THEN 1 ELSE 0
    IN sendCmd(initCmd(c1, "setPTT", Cmd(<<28, 0, b>>)), "setPTT")

\* setTune without the early return on state.ptt.
setTuneNoPttCheck(c, enable) ==
    LET c1 == IF enable
              THEN [c EXCEPT !.tuneTimers = Append(@, tuneTimeout),
                             !.tuneTimeoutTimer = "running"]
              ELSE c
    IN sendCmd(initCmd(c1, "setTune", Cmd(<<28, 1, IF enable THEN 2 ELSE 1>>)),
               "setTune")

setTune(c, enable) ==
    IF c.ptt THEN c
    ELSE LET c1 == IF enable
                   THEN [c EXCEPT !.tuneTimers = Append(@, tuneTimeout),
                                  !.tuneTimeoutTimer = "running"]
                   ELSE c
             b == IF enable THEN 2 ELSE 1
         IN sendCmd(initCmd(c1, "setTune", Cmd(<<28, 1, b>>)), "setTune")

setTS(c, b) == sendCmd(initCmd(c, "setTS", Cmd(<<16, b>>)), "setTS")

incTS(c) == setTS(c, IF c.tsValue = 13 THEN 0 ELSE (c.tsValue + 1) % 256)

decTS(c) == setTS(c, IF c.tsValue = 0 THEN 13 ELSE c.tsValue - 1)

setSplit(c, mode) ==
    LET b == CASE mode = splitModeOn -> 1
               [] mode = splitModeDUPMinus -> 17
               [] mode = splitModeDUPPlus -> 18
               [] OTHER -> 16
    IN sendCmd(initCmd(c, "setSplit", Cmd(<<15, b>>)), "setSplit")

\* toggleSplit that stays at DUP+ instead of going back to off.
toggleSplitNoWrap(c) ==
    setSplit(c, CASE c.splitMode = splitModeOff -> splitModeOn
                  [] c.splitMode = splitModeOn -> splitModeDUPMinus
                  [] OTHER -> splitModeDUPPlus)

toggleSplit(c) ==
    setSplit(c, CASE c.splitMode = splitModeOff -> splitModeOn
                  [] c.splitMode = splitModeOn -> splitModeDUPMinus
                  [] c.splitMode = splitModeDUPMinus -> splitModeDUPPlus
                  [] OTHER -> splitModeOff)


(***************************************************************************)
(* Decoders.  Each takes the engine value and the payload (the bytes after *)
(* the command byte, without the trailing 0xFD) and yields [c, r]: the     *)
(* engine value after the call and the returned boolean ("true", "false"), *)
(* or "panic" when the call ends in a run-time panic.                      *)
(***************************************************************************)
Bool(b) == IF b THEN "true" ELSE "false"

Result(c, r) == [c |-> c, r |-> r]

Panic(c) == [c |-> [c EXCEPT !.panicked = TRUE], r |-> "panic"]

\* if A.pending { removePendingCmd(&A); return false } ... return true,
\* for the slots ns in the order the code tests them.
RECURSIVE clearPending(_, _)
clearPending(c, ns) ==
    IF ns = <<>> THEN Result(c, "true")
    ELSE IF c.cmds[Head(ns)].pending
         THEN Result(removePendingCmd(c, Head(ns)), "false")
         ELSE clearPending(c, Tail(ns))

nonePending(c, ns) == Bool(\A i \in 1..Len(ns) : ~c.cmds[ns[i]].pending)

\* (*time.Timer).Stop on the timer a field points to.
stopPttTimer(c) ==
    IF c.pttTimeoutTimer = "running"
    THEN [c EXCEPT !.pttTimers = SubSeq(@, 1, Len(@) - 1),
                   !.pttTimeoutTimer = "dead"]
    ELSE c

stopTuneTimer(c) ==
    IF c.tuneTimeoutTimer = "running"
    THEN [c EXCEPT !.tuneTimers = SubSeq(@, 1, Len(@) - 1),
                   !.tuneTimeoutTimer = "dead"]
    ELSE c

\* Index i (Go, 0-based) of the first row of a code table holding v, or
\* none when no row does.
codeIdx(table, v, none) ==
    IF \E i \in 1..Len(table) : table[i] = v
    THEN (CHOOSE i \in 1..Len(table) :
             table[i] = v /\ \A j \in 1..(i - 1) : table[j] # v) - 1
    ELSE none

decodeFilterValueToFilterIdx(v) == codeIdx(civFilters, v, 0)

\* int(math.Round((float64(hex) / 0x0255) * 100))
percentOf(hi, lo) == (200 * (hi * 256 + lo) + 597) \div 1194

decodeMode(c, d) ==
    IF Len(d) < 1 THEN Result(c, nonePending(c, <<"setMode">>))
    ELSE LET c1 == [c EXCEPT !.operatingModeIdx =
                        codeIdx(civOperatingModes, d[1], @)]
             c2 == IF Len(d) > 1
                   THEN [c1 EXCEPT !.filterIdx =
                            decodeFilterValueToFilterIdx(d[2])]
                   ELSE c1
         IN clearPending(c2, <<"setMode">>)

decodeVFO(c, d) ==
    IF Len(d) < 1 THEN Result(c, nonePending(c, <<"setVFO">>))
    ELSE LET c1 == [c EXCEPT !.vfoBActive = (d[1] = 1)]
         IN IF c1.cmds["setVFO"].pending
            THEN Result(removePendingCmd(getBothVFOFreq(c1), "setVFO"), "false")
            ELSE Result(c1, "true")

decodeSplit(c, d) ==
    IF Len(d) < 1 THEN Result(c, nonePending(c, <<"getSplit", "setSplit">>))
    ELSE LET mode == CASE d[1] = 1 -> splitModeOn
                       [] d[1] = 17 -> splitModeDUPMinus
                       [] d[1] = 18 -> splitModeDUPPlus
                       [] OTHER -> splitModeOff
         IN clearPending([c EXCEPT !.splitMode = mode],
                         <<"getSplit", "setSplit">>)

tsTable == <<100, 500, 1000, 5000, 6250, 8330, 9000, 10000, 12500, 20000,
             25000, 50000, 100000>>

decodeTS(c, d) ==
    IF Len(d) < 1 THEN Result(c, nonePending(c, <<"getTS", "setTS">>))
    ELSE LET v == d[1]
             hz == IF v \in 1..13 THEN tsTable[v] ELSE 1
         IN clearPending([c EXCEPT !.tsValue = v, !.ts = hz],
                         <<"getTS", "setTS">>)

decodeDataModeAndOVF(c, d) ==
    IF Len(d) < 1 THEN Panic(c)
    ELSE CASE d[1] = 6 ->
              IF Len(d) < 3 THEN Result(c, nonePending(c, <<"setDataMode">>))
              ELSE LET c1 == IF d[2] = 1
                             THEN [c EXCEPT !.dataMode = TRUE,
                                     !.filterIdx =
                                        decodeFilterValueToFilterIdx(d[3])]
                             ELSE [c EXCEPT !.dataMode = FALSE]
                   IN clearPending(c1, <<"setDataMode">>)
           [] d[1] = 9 ->
              IF Len(d) < 2 THEN Result(c, nonePending(c, <<"getOVF">>))
              ELSE clearPending([c EXCEPT !.sinceOVF = 0], <<"getOVF">>)
           [] OTHER -> Result(c, "true")

decodePowerRFGainSQLNRPwr(c, d) ==
    IF Len(d) < 1 THEN Panic(c)
    ELSE CASE d[1] = 2 ->
              IF Len(d) < 3
              THEN Result(c, nonePending(c, <<"getRFGain", "setRFGain">>))
              ELSE clearPending(
                      [c EXCEPT !.rfGainPercent = percentOf(d[2], d[3])],
                      <<"getRFGain", "setRFGain">>)
           [] d[1] = 3 ->
              IF Len(d) < 3
              THEN Result(c, nonePending(c, <<"getSQL", "setSQL">>))
              ELSE clearPending(
                      [c EXCEPT !.sqlPercent = percentOf(d[2], d[3])],
                      <<"getSQL", "setSQL">>)
           [] d[1] = 6 ->
              IF Len(d) < 3
              THEN Result(c, nonePending(c, <<"getNR", "setNR">>))
              ELSE clearPending(
                      [c EXCEPT !.nrPercent = percentOf(d[2], d[3])],
                      <<"getNR", "setNR">>)
           [] d[1] = 10 ->
              IF Len(d) < 3
              THEN Result(c, nonePending(c, <<"getPwr", "setPwr">>))
              ELSE clearPending(
                      [c EXCEPT !.pwrPercent = percentOf(d[2], d[3])],
                      <<"getPwr", "setPwr">>)
           [] OTHER -> Result(c, "true")

decodeTransmitStatus(c, d) ==
    IF Len(d) < 2
    THEN Result(c, nonePending(c, <<"getTuneStatus", "getTransmitStatus",
                                    "setPTT">>))
    ELSE CASE d[1] = 0 ->
              LET c1 == IF d[2] = 1 THEN [c EXCEPT !.ptt = TRUE]
                        ELSE IF c.ptt
                             THEN getVd(IF c.pttTimeoutTimer # "nil"
                                        THEN stopPttTimer([c EXCEPT !.ptt = FALSE])
                                        ELSE [c EXCEPT !.ptt = FALSE])
                             ELSE c
              IN clearPending(c1, <<"setPTT", "getTuneStatus",
                                    "getTransmitStatus">>)
           [] d[1] = 1 ->
              IF d[2] # 2 /\ c.tune /\ c.tuneTimeoutTimer = "nil"
              THEN Panic([c EXCEPT !.tune = FALSE])
              ELSE LET c1 == IF d[2] = 2
                             THEN [c EXCEPT !.tune = TRUE,
                                     !.txPollTimers = Append(@, txPollDelay)]
                             ELSE IF c.tune
                                  THEN getVd(stopTuneTimer(
                                               [c EXCEPT !.tune = FALSE]))
                                  ELSE c
                   IN clearPending(c1, <<"setTune", "getTuneStatus",
                                         "getTransmitStatus">>)
           [] OTHER -> clearPending(c, <<"getTuneStatus", "getTransmitStatus">>)

\* sValueOf truncating instead of rounding.
sValueOfTrunc(hi, lo) == (18 * (hi * 256 + lo)) \div 577

\* int(math.Round(((float64(int(d[1])<<8) + float64(d[2])) / 0x0241) * 18))
sValueOf(hi, lo) == (36 * (hi * 256 + lo) + 577) \div 1154

\* The string decodeVdSWRS builds from sValue and hands to reportS.
sLadder == <<"S9+10", "S9+20", "S9+30", "S9+40", "S9+40", "S9+40", "S9+40",
             "S9+50", "S9+50">>

sStrOf(sValue) ==
    IF sValue <= 9 THEN "S" \o ToString(sValue)
    ELSE IF sValue <= 18 THEN sLadder[sValue - 9]
    ELSE "S9+60"

decodeVdSWRS(c, d) ==
    IF Len(d) < 1 THEN Panic(c)
    ELSE CASE d[1] = 2 ->
              IF Len(d) < 3 THEN Result(c, nonePending(c, <<"getS">>))
              ELSE clearPending(
                      [c EXCEPT !.sinceS = 0,
                                !.sStr = sStrOf(sValueOf(d[2], d[3]))],
                      <<"getS">>)
           [] d[1] = 18 ->
              IF Len(d) < 3 THEN Result(c, nonePending(c, <<"getSWR">>))
              ELSE clearPending([c EXCEPT !.sinceSWR = 0], <<"getSWR">>)
           [] d[1] = 21 ->
              IF Len(d) < 3 THEN Result(c, nonePending(c, <<"getVd">>))
              ELSE clearPending(c, <<"getVd">>)
           [] OTHER -> Result(c, "true")

decodePreampAGCNREnabled(c, d) ==
    IF Len(d) < 1 THEN Panic(c)
    ELSE CASE d[1] = 2 ->
              IF Len(d) < 2
              THEN Result(c, nonePending(c, <<"getPreamp", "setPreamp">>))
              ELSE clearPending([c EXCEPT !.preamp = d[2]],
                                <<"getPreamp", "setPreamp">>)
           [] d[1] = 18 ->
              IF Len(d) < 2
              THEN Result(c, nonePending(c, <<"getAGC", "setAGC">>))
              ELSE clearPending([c EXCEPT !.agc = d[2]],
                                <<"getAGC", "setAGC">>)
           [] d[1] = 64 ->
              IF Len(d) < 2
              THEN Result(c, nonePending(c, <<"getNREnabled", "setNREnabled">>))
              ELSE clearPending([c EXCEPT !.nrEnabled = (d[2] = 1)],
                                <<"getNREnabled", "setNREnabled">>)
           [] OTHER -> Result(c, "true")

\* bandOf with row 0 instead of the last row when no row holds f.
bandOfZero(f) ==
    IF \E i \in 1..15 : f >= civBandFrom[i] /\ f <= civBandTo[i]
    THEN (CHOOSE i \in 1..15 :
             /\ f >= civBandFrom[i] /\ f <= civBandTo[i]
             /\ \A j \in 1..(i - 1) : ~(f >= civBandFrom[j] /\ f <= civBandTo[j]))
         - 1
    ELSE 0

\* Go index of the first band row holding f, len(civBands)-1 when none does.
bandOf(f) ==
    IF \E i \in 1..15 : f >= civBandFrom[i] /\ f <= civBandTo[i]
    THEN (CHOOSE i \in 1..15 :
             /\ f >= civBandFrom[i] /\ f <= civBandTo[i]
             /\ \A j \in 1..(i - 1) : ~(f >= civBandFrom[j] /\ f <= civBandTo[j]))
         - 1
    ELSE 14

bandHit(f) == \E i \in 1..15 : f >= civBandFrom[i] /\ f <= civBandTo[i]

decodeVFOFreq(c, d) ==
    IF Len(d) < 2
    THEN Result(c, nonePending(c, <<"getMainVFOFreq", "getSubVFOFreq",
                                    "setSubVFOFreq">>))
    ELSE LET f == decodeFreqData(Tail(d))
         IN IF d[1] = 1
            THEN clearPending([c EXCEPT !.subFreq = f],
                              <<"getSubVFOFreq", "setSubVFOFreq">>)
            ELSE clearPending(
                   [c EXCEPT !.freq = f, !.bandIdx = bandOf(f),
                             !.civBands = IF bandHit(f)
                                          THEN [@ EXCEPT ![bandOf(f) + 1] = f]
                                          ELSE @],
                   <<"getMainVFOFreq", "setMainVFOFreq">>)

decodeVFOMode(c, d) ==
    IF Len(d) < 2
    THEN Result(c, nonePending(c, <<"getMainVFOMode", "getSubVFOMode",
                                    "setSubVFOMode">>))
    ELSE LET operatingModeIdx == codeIdx(civOperatingModes, d[2], -1)
             dataMode == Len(d) > 2 /\ d[3] # 0
             filterIdx == IF Len(d) > 3
                          THEN decodeFilterValueToFilterIdx(d[4]) ELSE -1
         IN IF d[1] = 1
            THEN LET c1 == [c EXCEPT !.subOperatingModeIdx = operatingModeIdx,
                                     !.subDataMode = dataMode,
                                     !.subFilterIdx = filterIdx]
                 IN IF operatingModeIdx < 0 \/ filterIdx < 0 THEN Panic(c1)
                    ELSE clearPending(c1, <<"getSubVFOMode", "setSubVFOMode">>)
            ELSE LET c1 == [c EXCEPT !.operatingModeIdx = operatingModeIdx,
                                     !.dataMode = dataMode,
                                     !.filterIdx = IF filterIdx >= 0
                                                   THEN filterIdx ELSE @]
                 IN IF operatingModeIdx < 0 THEN Panic(c1)
                    ELSE clearPending(c1, <<"getMainVFOMode">>)

\* The switch of decode on the command byte d[4], over payload d[5:len(d)-1].
decodeSwitch(c, d) ==
    LET payload == SubSeq(d, 6, Len(d) - 1)
    IN CASE d[5] \in {1, 4, 6} -> decodeMode(c, payload)
         [] d[5] = 7 -> decodeVFO(c, payload)
         [] d[5] = 15 -> decodeSplit(c, payload)
         [] d[5] = 16 -> decodeTS(c, payload)
         [] d[5] = 26 -> decodeDataModeAndOVF(c, payload)
         [] d[5] = 20 -> decodePowerRFGainSQLNRPwr(c, payload)
         [] d[5] = 28 -> decodeTransmitStatus(c, payload)
         [] d[5] = 21 -> decodeVdSWRS(c, payload)
         [] d[5] = 22 -> decodePreampAGCNREnabled(c, payload)
         [] d[5] = 37 -> decodeVFOFreq(c, payload)
         [] d[5] = 38 -> decodeVFOMode(c, payload)
         [] OTHER -> Result(c, "true")

\* decode without the test of the sentinel bytes.
decodeNoSentinel(c, d) ==
    IF Len(d) < 6 THEN Result(c, "true") ELSE decodeSwitch(c, d)

decode(c, d) ==
    IF Len(d) < 6 \/ d[1] # 254 \/ d[2] # 254 \/ d[Len(d)] # 253
    THEN Result(c, "true")
    ELSE decodeSwitch(c, d)


(***************************************************************************)
(* The engine as a state machine.                                          *)
(***************************************************************************)
\* Inputs of the model: frequencies the caller sets, frames the radio sends.
Freqs == {14250000, 7100000}

FrTS == Reply(<<16, 3>>)
FrMainFreqA == Reply(<<37, 0>> \o encodeFreqData(14250000))
FrMainFreqB == Reply(<<37, 0>> \o encodeFreqData(7100000))
FrPTTOn == Reply(<<28, 0, 1>>)
FrPTTOff == Reply(<<28, 0, 0>>)
FrTuneOn == Reply(<<28, 1, 2>>)
FrTuneOff == Reply(<<28, 1, 1>>)
FrShort == <<254, 254, 224, civAddress, 253>>

\* Frames of the table/retry specification and of the PTT/tune one.
Frames == {FrTS, FrMainFreqA, FrMainFreqB, FrPTTOff, FrShort}

FramesTx == {FrPTTOn, FrPTTOff, FrTuneOn, FrTuneOff}

Alive == ~civ.panicked

\* A timer case of the loop's select is ready.
selectTimerReady(c) ==
    \/ c.selWait >= statusPollInterval
    \/ c.selWait >= c.nextPendingCmdTimeout

\* Whether a non-blocking send on newPendingCmdAdded made by another
\* goroutine finds the loop receiving: it does when the loop is parked in
\* the select; when a timer case is already ready the loop may have left.
Receiving(c) ==
    IF c.loopPc = "select" /\ ~c.wake
    THEN IF selectTimerReady(c) THEN BOOLEAN ELSE {TRUE}
    ELSE {FALSE}

Enter(c, rcv) == [c EXCEPT !.rcv = rcv, !.sent = <<>>]

Leave(c) == [c EXCEPT !.rcv = FALSE]

Op(name, arg) == [op |-> name, arg |-> arg]

\* A step of the engine's own goroutines (loop, timer callbacks).
Step(name, arg, c) ==
    /\ civ' = Leave(c)
    /\ lastOp' = Op(name, arg)
    /\ ret' = "nil"
    /\ UNCHANGED <<ticks, calls, frames, ctl, m>>

\* A call of the engine's interface by the rest of the program.
Call(name, arg, c) ==
    /\ calls < MaxCalls
    /\ civ' = Leave(c)
    /\ lastOp' = Op(name, arg)
    /\ ret' = "nil"
    /\ calls' = calls + 1
    /\ UNCHANGED <<ticks, frames, ctl, m>>

civInit(c) ==
    LET c1 == getBothVFOMode(getBothVFOFreq([c EXCEPT !.st = TRUE]))
        c2 == getAGC(getPreamp(getTransmitStatus(getPwr(c1))))
        c3 == getTS(getSWR(getOVF(getS(getVd(c2)))))
        c4 == getSplit(getNREnabled(getNR(getSQL(getRFGain(c3)))))
    IN [c4 EXCEPT !.deinitNeeded = TRUE, !.loopPc = "top", !.wake = FALSE]

CivInit ==
    /\ Alive
    /\ civ.loopPc \in {"none", "exited"}
    /\ Call("init", <<>>, civInit(Enter(civ, FALSE)))

\* deinit: the rendezvous on deinitNeeded / deinitFinished with the loop,
\* which must be in its select to take it.
civDeinit(c) ==
    IF ~c.deinitNeeded THEN c
    ELSE [c EXCEPT !.loopPc = "exited", !.deinitNeeded = FALSE, !.st = FALSE]

CivDeinit ==
    /\ Alive
    /\ civ.deinitNeeded => (civ.loopPc = "select" /\ ~civ.wake)
    /\ Call("deinit", <<>>, civDeinit(Enter(civ, FALSE)))

\* deinit step by step, for calls that overlap.  The call: the nil test, then
\* the caller blocks in its send on deinitNeeded.
civDeinitCall(c) ==
    IF ~c.deinitNeeded THEN [c EXCEPT !.dinReturned = @ + 1]
    ELSE [c EXCEPT !.dinSending = @ + 1]

CivDeinitCall ==
    /\ Alive
    /\ civ.dinSending + civ.dinStuck + civ.dinReturned < MaxDeinits
    /\ Step("deinitCall", <<>>, civDeinitCall(Enter(civ, FALSE)))

\* The loop's select receives from one blocked caller, answers on
\* deinitFinished and returns; the caller sets deinitNeeded and st to nil and
\* returns.  The other blocked callers have no receiver any more.
civDeinitTake(c) ==
    [civDeinit(c) EXCEPT !.dinSending = 0,
                         !.dinStuck = @ + c.dinSending - 1,
                         !.dinReturned = @ + 1]

CivDeinitTake ==
    /\ Alive
    /\ civ.dinSending > 0
    /\ civ.loopPc = "select" /\ ~civ.wake
    /\ Step("deinitTake", <<>>, civDeinitTake(Enter(civ, FALSE)))

SetMainVFOFreq ==
    /\ Alive
    /\ \E f \in Freqs, rcv \in Receiving(civ) :
          Call("setMainVFOFreq", <<f>>, setMainVFOFreq(Enter(civ, rcv), f))

SetPTT ==
    /\ Alive
    /\ \E enable \in BOOLEAN, rcv \in Receiving(civ) :
          /\ enable => Len(civ.pttTimers) < MaxTimers
          /\ Call("setPTT", <<IF enable THEN 1 ELSE 0>>,
                  setPTT(Enter(civ, rcv), enable))

SetTune ==
    /\ Alive
    /\ \E enable \in BOOLEAN, rcv \in Receiving(civ) :
          /\ enable => Len(civ.tuneTimers) < MaxTimers
          /\ Call("setTune", <<IF enable THEN 1 ELSE 0>>,
                  setTune(Enter(civ, rcv), enable))

IncTS ==
    /\ Alive
    /\ \E rcv \in Receiving(civ) : Call("incTS", <<>>, incTS(Enter(civ, rcv)))

DecTS ==
    /\ Alive
    /\ \E rcv \in Receiving(civ) : Call("decTS", <<>>, decTS(Enter(civ, rcv)))

\* Observation, not a field of the program: vfoFreqFrameAge is the time since
\* decode last handled a well-framed VFO frequency frame (0x25 with a
\* selector and data), capped at statusPollInterval.
observeFrame(c, d) ==
    IF /\ Len(d) >= 8
       /\ d[1] = 254 /\ d[2] = 254 /\ d[Len(d)] = 253
       /\ d[5] = 37
    THEN [c EXCEPT !.vfoFreqFrameAge = 0]
    ELSE c

\* The serial stream hands a received frame to decode.
DecodeOf(F) ==
    /\ Alive
    /\ civ.st
    /\ frames < MaxFrames
    /\ \E d \in F, rcv \in Receiving(civ) :
          /\ d = FrTuneOn => Len(civ.txPollTimers) < MaxTimers
          /\ LET res == decode(Enter(civ, rcv), d)
             IN /\ civ' = Leave(observeFrame(res.c, d))
                /\ ret' = res.r
                /\ lastOp' = Op("decode", d)
                /\ frames' = frames + 1
                /\ UNCHANGED <<ticks, calls, ctl, m>>

Decode == DecodeOf(Frames)

DecodeTx == DecodeOf(FramesTx)

(***************************************************************************)
(* civControlStruct.loop                                                   *)
(***************************************************************************)
RECURSIVE timeoutOver(_, _, _)
timeoutOver(c, i, next) ==
    IF i > Len(c.pendingCmds) THEN next
    ELSE LET diff == c.cmds[c.pendingCmds[i]].sinceSent
         IN IF diff >= commandRetryTimeout THEN 0
            ELSE timeoutOver(c, i + 1, IF diff < next THEN diff ELSE next)

\* Top of the loop: compute nextPendingCmdTimeout and enter the select.
loopTop(c) ==
    [c EXCEPT !.nextPendingCmdTimeout = timeoutOver(c, 1, Hour),
              !.selWait = 0, !.loopPc = "select"]

LoopTop ==
    /\ Alive
    /\ civ.loopPc = "top"
    /\ Step("loopTop", <<>>, loopTop(Enter(civ, FALSE)))

\* The poll branch without the test of ptt and tune: S-meter and OVF are
\* requested also while transmitting.
loopPollNoTxTest(c) ==
    LET cs == IF ~c.cmds["getS"].pending /\ c.sinceS >= statusPollInterval
              THEN getS(c) ELSE c
        c1 == IF ~cs.cmds["getOVF"].pending /\ cs.sinceOVF >= statusPollInterval
              THEN getOVF(cs) ELSE cs
        c2 == IF /\ ~c1.cmds["getMainVFOFreq"].pending
                 /\ ~c1.cmds["getSubVFOFreq"].pending
                 /\ c1.sinceVFOFreq >= statusPollInterval
              THEN getBothVFOFreq(c1) ELSE c1
    IN [c2 EXCEPT !.loopPc = "top"]

loopPoll(c) ==
    LET c1 == IF c.ptt \/ c.tune
              THEN IF ~c.cmds["getSWR"].pending /\ c.sinceSWR >= statusPollInterval
                   THEN getSWR(c) ELSE c
              ELSE LET cs == IF ~c.cmds["getS"].pending
                                /\ c.sinceS >= statusPollInterval
                             THEN getS(c) ELSE c
                   IN IF ~cs.cmds["getOVF"].pending
                         /\ cs.sinceOVF >= statusPollInterval
                      THEN getOVF(cs) ELSE cs
        c2 == IF /\ ~c1.cmds["getMainVFOFreq"].pending
                 /\ ~c1.cmds["getSubVFOFreq"].pending
                 /\ c1.sinceVFOFreq >= statusPollInterval
              THEN getBothVFOFreq(c1) ELSE c1
    IN [c2 EXCEPT !.loopPc = "top"]

LoopPoll ==
    /\ Alive
    /\ civ.loopPc = "select" /\ ~civ.wake
    /\ civ.selWait >= statusPollInterval
    /\ Step("loopPoll", <<>>, loopPoll(Enter(civ, FALSE)))

LoopWake ==
    /\ Alive
    /\ civ.loopPc = "select" /\ civ.wake
    /\ Step("loopWake", <<>>,
            [Enter(civ, FALSE) EXCEPT !.wake = FALSE, !.loopPc = "top"])

\* A retry that resends every pending command, whatever its age.
RECURSIVE retryFromNoWait(_, _)
retryFromNoWait(c, i) ==
    IF i > Len(c.pendingCmds) THEN c
    ELSE retryFromNoWait(sendCmd(c, c.pendingCmds[i]), i + 1)

RECURSIVE retryFrom(_, _)
retryFrom(c, i) ==
    IF i > Len(c.pendingCmds) THEN c
    ELSE retryFrom(IF c.cmds[c.pendingCmds[i]].sinceSent >= commandRetryTimeout
                   THEN sendCmd(c, c.pendingCmds[i]) ELSE c,
                   i + 1)

loopRetry(c) == [retryFrom(c, 1) EXCEPT !.loopPc = "top"]

LoopRetry ==
    /\ Alive
    /\ civ.loopPc = "select" /\ ~civ.wake
    /\ civ.selWait >= civ.nextPendingCmdTimeout
    /\ Step("loopRetry", <<>>, loopRetry(Enter(civ, FALSE)))

(***************************************************************************)
(* Timer callbacks (time.AfterFunc), each in a goroutine of its own.       *)
(***************************************************************************)
pttTimerFired(c) ==
    setPTT([c EXCEPT !.pttTimers = Tail(@),
                     !.pttTimeoutTimer =
                         IF @ = "running" /\ Len(c.pttTimers) = 1
                         THEN "dead" ELSE @],
           FALSE)

PttTimerFire ==
    /\ Alive
    /\ civ.pttTimers # <<>> /\ Head(civ.pttTimers) = 0
    /\ \E rcv \in Receiving(civ) :
          Step("pttTimer", <<>>, pttTimerFired(Enter(civ, rcv)))

tuneTimerFired(c) ==
    setTune([c EXCEPT !.tuneTimers = Tail(@),
                      !.tuneTimeoutTimer =
                          IF @ = "running" /\ Len(c.tuneTimers) = 1
                          THEN "dead" ELSE @],
            FALSE)

TuneTimerFire ==
    /\ Alive
    /\ civ.tuneTimers # <<>> /\ Head(civ.tuneTimers) = 0
    /\ \E rcv \in Receiving(civ) :
          Step("tuneTimer", <<>>, tuneTimerFired(Enter(civ, rcv)))

txPollTimerFired(c) == getTransmitStatus([c EXCEPT !.txPollTimers = Tail(@)])

TxPollTimerFire ==
    /\ Alive
    /\ civ.txPollTimers # <<>> /\ Head(civ.txPollTimers) = 0
    /\ \E rcv \in Receiving(civ) :
          Step("txPollTimer", <<>>, txPollTimerFired(Enter(civ, rcv)))

(***************************************************************************)
(* Passage of time.  A running timer fires when its time is up, so time    *)
(* never passes the deadline of a running timer.                           *)
(***************************************************************************)
running(c) == c.pttTimers \o c.tuneTimers \o c.txPollTimers

minRemaining(c, d) ==
    IF \E i \in 1..Len(running(c)) : running(c)[i] < d
    THEN CHOOSE r \in {running(c)[i] : i \in 1..Len(running(c))} :
            \A i \in 1..Len(running(c)) : r <= running(c)[i]
    ELSE d

elapse(c, d) ==
    [c EXCEPT !.cmds = [n \in CmdNames |->
                          [@[n] EXCEPT !.sinceSent =
                              Min(commandRetryTimeout, @ + d)]],
              !.sinceS = Min(statusPollInterval, @ + d),
              !.sinceOVF = Min(statusPollInterval, @ + d),
              !.sinceSWR = Min(statusPollInterval, @ + d),
              !.sinceVFOFreq = Min(statusPollInterval, @ + d),
              !.vfoFreqFrameAge = Min(statusPollInterval, @ + d),
              !.selWait = IF c.loopPc = "select"
                          THEN Min(statusPollInterval, @ + d) ELSE @,
              !.pttTimers = [i \in 1..Len(@) |-> @[i] - d],
              !.tuneTimers = [i \in 1..Len(@) |-> @[i] - d],
              !.txPollTimers = [i \in 1..Len(@) |-> @[i] - d],
              !.sent = <<>>]

\* 500 ms pass.
ShortTick ==
    /\ Alive
    /\ ticks < MaxTicks
    /\ minRemaining(civ, 1) = 1
    /\ civ' = elapse(civ, 1)
    /\ ticks' = ticks + 1
    /\ lastOp' = Op("tick", <<1>>)
    /\ ret' = "nil"
    /\ UNCHANGED <<calls, frames, ctl, m>>

\* tuneTimeout passes, or the time to the next timer's deadline if shorter.
LongTick ==
    /\ Alive
    /\ minRemaining(civ, tuneTimeout) > 0
    /\ civ' = elapse(civ, minRemaining(civ, tuneTimeout))
    /\ lastOp' = Op("tick", <<minRemaining(civ, tuneTimeout)>>)
    /\ ret' = "nil"
    /\ UNCHANGED <<ticks, calls, frames, ctl, m>>

CivNext ==
    \/ CivInit
    \/ CivDeinit
    \/ SetMainVFOFreq
    \/ IncTS
    \/ Decode
    \/ LoopTop
    \/ LoopPoll
    \/ LoopWake
    \/ LoopRetry
    \/ ShortTick

TxNext ==
    \/ CivInit
    \/ CivDeinit
    \/ SetPTT
    \/ SetTune
    \/ DecodeTx
    \/ LoopTop
    \/ LoopPoll
    \/ LoopWake
    \/ LoopRetry
    \/ PttTimerFire
    \/ TuneTimerFire
    \/ TxPollTimerFire
    \/ LongTick

(***************************************************************************)
(* The decoders under a wide alphabet of frames: mode frames with known    *)
(* and unknown codes, level read-backs inside and outside 0x0000..0x0255,  *)
(* frequency frames of both VFOs, S-meter frames and malformed messages.   *)
(***************************************************************************)
FrModeLSB == Reply(<<1, 0, 2>>)
FrModeUnknown == Reply(<<1, 255, 9>>)
FrVFOModeMain == Reply(<<38, 0, 3, 0, 2>>)
FrVFOModeMainUnknown == Reply(<<38, 0, 255, 0, 1>>)
FrVFOModeSub == Reply(<<38, 1, 5, 1, 3>>)
FrVFOModeSubNoFilter == Reply(<<38, 1, 5>>)
FrPwrHalf == Reply(<<20, 10, 1, 40>>)
FrPwrFull == Reply(<<20, 10, 2, 85>>)
FrPwrOver == Reply(<<20, 10, 3, 0>>)
FrRFGainMax == Reply(<<20, 2, 255, 255>>)
FrSubFreqA == Reply(<<37, 1>> \o encodeFreqData(14250000))
FrMainFreqNoBand == Reply(<<37, 0>> \o encodeFreqData(500000))
FrMainFreqZero == Reply(<<37, 0>> \o encodeFreqData(0))
FrS0 == Reply(<<21, 2, 0, 0>>)
FrS == Reply(<<21, 2, 1, 32>>)
FrS5 == Reply(<<21, 2, 0, 160>>)
FrSFull == Reply(<<21, 2, 2, 65>>)
FrSOver == Reply(<<21, 2, 255, 255>>)
FrNoPreamble == <<254, 0, 224, civAddress, 37, 0>> \o encodeFreqData(7100000)
                    \o <<253>>
FrNoEnd == <<254, 254, 224, civAddress, 37, 0>> \o encodeFreqData(7100000)
               \o <<0>>

FramesDec == {FrModeLSB, FrModeUnknown, FrVFOModeMain, FrVFOModeMainUnknown,
              FrVFOModeSub, FrVFOModeSubNoFilter, FrPwrHalf, FrPwrFull,
              FrPwrOver, FrRFGainMax, FrMainFreqA, FrMainFreqB, FrSubFreqA,
              FrMainFreqNoBand, FrMainFreqZero, FrS0, FrS, FrS5, FrSFull,
              FrSOver, <<>>, FrShort, FrNoPreamble, FrNoEnd}

DecodeDec == DecodeOf(FramesDec)

DecNext ==
    \/ CivInit
    \/ SetMainVFOFreq
    \/ DecodeDec

(***************************************************************************)
(* Decoding frames that end right after the command byte, one for every    *)
(* command the decode switch routes, next to frames with a payload.        *)
(***************************************************************************)
RoutedCmds == {1, 4, 6, 7, 15, 16, 20, 21, 22, 26, 28, 37, 38}

FramesBare ==
    {Reply(<<b>>) : b \in RoutedCmds} \cup {FrTS, FrMainFreqA, FrPTTOff, FrS}

DecodeBare == DecodeOf(FramesBare)

BareNext ==
    \/ CivInit
    \/ SetMainVFOFreq
    \/ DecodeBare

(***************************************************************************)
(* The loop in real time, for progress: time passes in the select only up  *)
(* to the earlier of its two timers, the branch whose timer is due is      *)
(* taken, and the radio answers the oldest pending command or stays silent.*)
(***************************************************************************)
\* The data bytes of the radio's answer to a request with command byte b.
AnswerData(b) ==
    CASE b = 37 -> encodeFreqData(14250000)
      [] b = 38 -> <<3, 0, 2>>
      [] b \in {20, 21} -> <<1, 40>>
      [] OTHER -> <<0>>

\* The answer to the command frame cmd: its command and selector bytes,
\* then the data.
AnswerFrame(cmd) ==
    Reply(SubSeq(cmd, 5, Len(cmd) - 1) \o AnswerData(cmd[5]))

LiveDecode ==
    /\ Alive
    /\ civ.st
    /\ civ.pendingCmds # <<>>
    /\ LET d == AnswerFrame(civ.cmds[Head(civ.pendingCmds)].cmd)
           res == decode(Enter(civ, FALSE), d)
       IN /\ civ' = Leave(observeFrame(res.c, d))
          /\ ret' = res.r
          /\ lastOp' = Op("decode", d)
          /\ UNCHANGED <<ticks, calls, frames, ctl, m>>

\* 500 ms pass.  At the top of the loop this is the time the iterations
\* themselves take; in the select it is the wait for the earlier timer.
LivePass ==
    /\ Alive
    /\ civ.loopPc \in {"top", "select"}
    /\ ~civ.wake
    /\ civ.loopPc = "select" =>
           civ.selWait < Min(civ.nextPendingCmdTimeout, statusPollInterval)
    /\ minRemaining(civ, 1) = 1
    /\ civ' = elapse(civ, 1)
    /\ lastOp' = Op("tick", <<1>>)
    /\ ret' = "nil"
    /\ UNCHANGED <<ticks, calls, frames, ctl, m>>

LiveNext ==
    \/ CivInit
    \/ LiveDecode
    \/ LoopTop
    \/ LoopPoll
    \/ LoopRetry
    \/ LivePass

(***************************************************************************)
(* The poll branch of the loop with the frames that bear on it: replies to *)
(* the metering getters, the PTT status, both VFO frequencies.             *)
(***************************************************************************)
FrSWR == Reply(<<21, 18, 0, 0>>)
FrOVF == Reply(<<26, 9, 0>>)

FramesPoll == {FrS, FrSWR, FrOVF, FrPTTOn, FrMainFreqA, FrSubFreqA}

DecodePoll == DecodeOf(FramesPoll)

PollNext ==
    \/ CivInit
    \/ DecodePoll
    \/ LoopTop
    \/ LoopPoll
    \/ LoopRetry
    \/ ShortTick

(***************************************************************************)
(* sendCmd in the callers that do not take the mutex (the public methods,  *)
(* the timer callbacks, the poll branch of the loop): its test of          *)
(* getPendingCmdIndex and its append are two steps, and other threads may  *)
(* act between them.  inSend holds the callers that are between the two:   *)
(* the slot they send and whether they found it in pendingCmds.  decode    *)
(* takes the mutex, which keeps other mutex holders out but none of these  *)
(* callers.                                                                *)
(***************************************************************************)
\* The steps whose code runs between mutex.Lock() and mutex.Unlock().
HoldsMutex(op) == op \in {"decode", "loopTop", "loopRetry"}

sendCmdBegin(c, n) ==
    IF ~c.st THEN c
    ELSE LET c1 == [c EXCEPT !.cmds[n].pending = TRUE, !.cmds[n].sinceSent = 0]
         IN [c1 EXCEPT !.inSend =
                Append(@, [name |-> n,
                           found |-> getPendingCmdIndex(c1, n) # 0])]

sendCmdEnd(c, k) ==
    LET n == c.inSend[k].name
        c1 == [c EXCEPT !.inSend = SubSeq(@, 1, k - 1)
                                       \o SubSeq(@, k + 1, Len(@))]
        c2 == IF ~c.inSend[k].found
              THEN [c1 EXCEPT !.pendingCmds = Append(@, n)]
              ELSE c1
    IN [c2 EXCEPT !.sent = Append(@, c2.cmds[n].cmd)]

RaceSetFreqBegin ==
    /\ Alive
    /\ \E f \in Freqs :
          Call("setMainVFOFreq", <<f>>,
               sendCmdBegin(initCmd(Enter(civ, FALSE), "setMainVFOFreq",
                                    Cmd(<<37, 0>> \o encodeFreqData(f))),
                            "setMainVFOFreq"))

RaceIncTSBegin ==
    /\ Alive
    /\ Call("incTS", <<>>,
            sendCmdBegin(initCmd(Enter(civ, FALSE), "setTS",
                                 Cmd(<<16, IF civ.tsValue = 13 THEN 0
                                           ELSE (civ.tsValue + 1) % 256>>)),
                         "setTS"))

RaceSendEnd ==
    /\ Alive
    /\ \E k \in 1..Len(civ.inSend) :
          Step("sendCmdEnd", <<k>>, sendCmdEnd(Enter(civ, FALSE), k))

RaceNext ==
    \/ CivInit
    \/ RaceSetFreqBegin
    \/ RaceIncTSBegin
    \/ RaceSendEnd
    \/ Decode

(***************************************************************************)
(* The key handlers toggleSplit, incTS and decTS with the frames that move *)
(* splitMode and tsValue.  The engine value has finitely many values under *)
(* these actions, so calls and frames are not counted here.                *)
(***************************************************************************)
FramesCmd ==
    {Reply(<<15, b>>) : b \in {0, 1, 16, 17, 18}}
        \cup {Reply(<<16, v>>) : v \in {0, 3, 13, 14, 255}}

\* A call of the engine's interface that is not counted against MaxCalls.
Invoke(name, arg, c) ==
    /\ civ' = Leave(c)
    /\ lastOp' = Op(name, arg)
    /\ ret' = "nil"
    /\ UNCHANGED <<ticks, calls, frames, ctl, m>>

CmdToggleSplit ==
    /\ Alive
    /\ Invoke("toggleSplit", <<>>, toggleSplit(Enter(civ, FALSE)))

CmdIncTS ==
    /\ Alive
    /\ Invoke("incTS", <<>>, incTS(Enter(civ, FALSE)))

CmdDecTS ==
    /\ Alive
    /\ Invoke("decTS", <<>>, decTS(Enter(civ, FALSE)))

CmdDecode ==
    /\ Alive
    /\ civ.st
    /\ \E d \in FramesCmd :
          LET res == decode(Enter(civ, FALSE), d)
          IN /\ civ' = Leave(res.c)
             /\ ret' = res.r
             /\ lastOp' = Op("decode", d)
             /\ UNCHANGED <<ticks, calls, frames, ctl, m>>

CmdNext ==
    \/ CivInit
    \/ CmdToggleSplit
    \/ CmdIncTS
    \/ CmdDecTS
    \/ CmdDecode

(***************************************************************************)
(* The frequency codec on the engine's own path: setMainVFOFreq encodes    *)
(* the frequency into the command, the radio answers with the same data    *)
(* bytes, decodeVFOFreq decodes them into state.freq.  Frequencies are     *)
(* every digit at every position below 10^9, and values with the 10^9      *)
(* digit 1 and 2, the largest that 32-bit signed integers hold.                  *)
(***************************************************************************)
CodecFreqs ==
    {n * Pow10(k) : n \in 1..9, k \in 0..8}
        \cup {0, 14250000, 999999999, 1000000000, 1234567890, 2000000000,
              2147483647}

SetCodecFreq ==
    /\ Alive
    /\ \E f \in CodecFreqs :
          Call("setMainVFOFreq", <<f>>, setMainVFOFreq(Enter(civ, FALSE), f))

\* The reply of the radio to a command: same body, addresses exchanged.
Echo(cmd) == <<254, 254, 224, civAddress>> \o SubSeq(cmd, 5, Len(cmd))

DecodeEcho ==
    /\ civ.cmds["setMainVFOFreq"].pending
    /\ DecodeOf({Echo(civ.cmds["setMainVFOFreq"].cmd)})

CodecNext ==
    \/ CivInit
    \/ SetCodecFreq
    \/ DecodeEcho

(***************************************************************************)
(* The control stream (controlStream).  Timers are untimed here: a running *)
(* timer may fire at any later moment.                                     *)
(***************************************************************************)
MaxAuthSeq == 5
MaxReqTimers == 2

\* logoutTimer.Reset(3300 * time.Millisecond), in ms.
logoutGrace == 3300

Zeros(n) == [i \in 1..n |-> 0]

\* The session ids of streamCommon, as the 4 bytes written into packets.
localSID == <<190, 217, 242, 99>>
remoteSID == <<228, 53, 221, 114>>

controlStream ==
    [pc |-> "idle",
     op |-> Op("none", <<>>),
     startErr |-> "",
     authSendSeq |-> 0,
     authInnerSendSeq |-> 0,
     authID |-> Zeros(6),
     serialAndAudioStreamOpened |-> FALSE,
     deinitializing |-> FALSE,
     secondAuthTimer |-> "nil",
     requestSerialAndAudioTimeout |-> 0,
     reqTimers |-> <<>>,
     logoutTimer |-> "stopped",
     logoutDuration |-> 0,
     deinitNeededChan |-> FALSE,
     dSending |-> 0,
     dWaiting |-> 0,
     dReturned |-> 0,
     signals |-> 0,
     commonDeinit |-> FALSE,
     pkt7Periodic |-> FALSE,
     devName |-> <<>>,
     reported |-> {},
     sent |-> <<>>]

\* The common header of the control packets: length, sequence, session ids.
ctlHeader(c, len) ==
    <<len, 0, 0, 0, 0, 0, c.authSendSeq % 256, (c.authSendSeq \div 256) % 256>>
        \o localSID \o remoteSID

\* Each control packet is sent twice, then the sequence numbers move on.
ctlSendTwice(c, p, inner) ==
    [c EXCEPT !.sent = @ \o <<p, p>>,
              !.authSendSeq = (@ + 1) % 65536,
              !.authInnerSendSeq = IF inner THEN (@ + 1) % 65536 ELSE @]

sendPktLogin(c, randID) ==
    ctlSendTwice(c,
        ctlHeader(c, 128)
            \o <<0, 0, 0, 112, 1, 0, 0, c.authInnerSendSeq % 256>>
            \o <<(c.authInnerSendSeq \div 256) % 256, 0, randID[1], randID[2],
                 0, 0, 0, 0>>
            \o Zeros(32)
            \o <<43, 63, 85, 92, 0, 0, 0, 0>> \o Zeros(8)
            \o <<43, 63, 85, 92, 63, 37, 119, 88>> \o Zeros(8)
            \o <<105, 99, 111, 109, 45, 112, 99, 0>> \o Zeros(24),
        TRUE)

sendPktAuth(c, firstAuthSend) ==
    ctlSendTwice(c,
        ctlHeader(c, 64)
            \o <<0, 0, 0, 48, 1, IF firstAuthSend THEN 2 ELSE 5, 0,
                 c.authInnerSendSeq % 256>>
            \o <<(c.authInnerSendSeq \div 256) % 256, 0>> \o c.authID
            \o Zeros(32),
        TRUE)

sendPkt0(c) == ctlSendTwice(c, ctlHeader(c, 16), FALSE)

\* The request packet, then a new 3 s timer whose handle overwrites the field.
sendRequestSerialAndAudio(c) ==
    LET c1 == ctlSendTwice(c,
                  ctlHeader(c, 144)
                      \o <<0, 0, 0, 128, 1, 3, 0, c.authInnerSendSeq % 256>>
                      \o <<(c.authInnerSendSeq \div 256) % 256, 0>> \o c.authID
                      \o <<0, 0, 0, 0, 0, 0, 0, 16>>
                      \o <<128, 0, 0, 144, 199, 14, 134, 1>> \o Zeros(16)
                      \o <<73, 67, 45, 55, 48, 53, 0, 0>> \o Zeros(24)
                      \o <<43, 63, 85, 92, 0, 0, 0, 0>> \o Zeros(8)
                      \o <<1, 1, 4, 4, 0, 0, 187, 128>>
                      \o <<0, 0, 187, 128, 0, 0, 195, 82>>
                      \o <<0, 0, 195, 83, 0, 0, 0, 160>>
                      \o <<1, 0, 0, 0, 0, 0, 0, 0>>,
                  TRUE)
    IN [c1 EXCEPT !.reqTimers = Append(@, "running"),
                  !.requestSerialAndAudioTimeout = Len(c1.reqTimers) + 1]

\* strings.Index(d, "\x00"): the bytes before the first zero, when there
\* is a zero and it is not the first byte.
RECURSIVE nullIndex(_, _)
nullIndex(d, i) ==
    IF i > Len(d) THEN 0 ELSE IF d[i] = 0 THEN i ELSE nullIndex(d, i + 1)

parseNullTerminatedString(d) ==
    IF nullIndex(d, 1) > 1 THEN SubSeq(d, 1, nullIndex(d, 1) - 1) ELSE <<>>

\* handleRead: the new state and the error returned ("" for nil).  startErr
\* is the outcome of serial.start / audio.start.
\* A handleRead that requests the streams on every 0x05 reply, opened or not.
handleReadAlwaysRequest(c, r, startErr) ==
    CASE Len(r) = 64 /\ SubSeq(r, 1, 6) = <<64, 0, 0, 0, 0, 0>>
             /\ r[22] = 5 ->
             [c |-> sendRequestSerialAndAudio(
                        [c EXCEPT !.secondAuthTimer =
                                     IF @ = "running" THEN "stopped" ELSE @]),
              err |-> ""]
      [] Len(r) = 80 /\ SubSeq(r, 1, 6) = <<80, 0, 0, 0, 0, 0>>
             /\ SubSeq(r, 49, 51) = <<255, 255, 255>> ->
             [c |-> c, err |-> "auth failed"]
      [] Len(r) = 144 /\ ~c.serialAndAudioStreamOpened
             /\ SubSeq(r, 1, 6) = <<144, 0, 0, 0, 0, 0>> /\ r[97] = 1 ->
             LET f == c.requestSerialAndAudioTimeout
                 c1 == [c EXCEPT
                           !.devName = parseNullTerminatedString(SubSeq(r, 65, 144)),
                           !.reqTimers = [i \in 1..Len(@) |->
                               IF i = f /\ @[i] = "running" THEN "stopped" ELSE @[i]],
                           !.requestSerialAndAudioTimeout = 0]
             IN IF startErr # "" THEN [c |-> c1, err |-> startErr]
                ELSE [c |-> [c1 EXCEPT !.serialAndAudioStreamOpened = TRUE],
                      err |-> ""]
      [] OTHER -> [c |-> c, err |-> ""]

handleRead(c, r, startErr) ==
    CASE Len(r) = 64 /\ SubSeq(r, 1, 6) = <<64, 0, 0, 0, 0, 0>>
             /\ r[22] = 5 /\ ~c.serialAndAudioStreamOpened ->
             [c |-> sendRequestSerialAndAudio(
                        [c EXCEPT !.secondAuthTimer =
                                     IF @ = "running" THEN "stopped" ELSE @]),
              err |-> ""]
      [] Len(r) = 80 /\ SubSeq(r, 1, 6) = <<80, 0, 0, 0, 0, 0>>
             /\ SubSeq(r, 49, 51) = <<255, 255, 255>> ->
             [c |-> c, err |-> "auth failed"]
      [] Len(r) = 144 /\ ~c.serialAndAudioStreamOpened
             /\ SubSeq(r, 1, 6) = <<144, 0, 0, 0, 0, 0>> /\ r[97] = 1 ->
             LET f == c.requestSerialAndAudioTimeout
                 c1 == [c EXCEPT
                           !.devName = parseNullTerminatedString(SubSeq(r, 65, 144)),
                           !.reqTimers = [i \in 1..Len(@) |->
                               IF i = f /\ @[i] = "running" THEN "stopped" ELSE @[i]],
                           !.requestSerialAndAudioTimeout = 0]
             IN IF startErr # "" THEN [c |-> c1, err |-> startErr]
                ELSE [c |-> [c1 EXCEPT !.serialAndAudioStreamOpened = TRUE],
                      err |-> ""]
      [] OTHER -> [c |-> c, err |-> ""]

\* Replies of the radio.
AuthIDs == {<<93, 55, 18, 130, 59, 222>>, <<53, 52, 118, 17, 185, 208>>}
RandIDs == {<<93, 55>>}

replyHeader(len) == <<len, 0, 0, 0, 0, 0, 1, 0>> \o remoteSID \o localSID

LoginReply(marker, id) ==
    replyHeader(96) \o <<0, 0, 0, 80, 2, 0, 0, 0>> \o <<0, 0>> \o id
        \o Zeros(16) \o marker \o Zeros(44)

LoginReplies ==
    {LoginReply(mk, id) :
        mk \in {<<255, 255, 255, 254>>, <<0, 0, 0, 0>>, <<255, 255, 255, 255>>},
        id \in AuthIDs}

AuthReply(magic) ==
    replyHeader(64) \o <<0, 0, 0, 48, 2, magic, 0, 2>> \o <<0, 0>>
        \o Zeros(6) \o Zeros(32)

AuthFailedReply ==
    replyHeader(80) \o Zeros(32) \o <<255, 255, 255, 255>> \o Zeros(28)

RequestReply(ok) ==
    replyHeader(144) \o Zeros(48) \o <<73, 67, 45, 55, 48, 53, 0, 0>>
        \o Zeros(24) \o <<ok, 0, 0, 0>> \o Zeros(44)

CtlReplies ==
    {AuthReply(2), AuthReply(5), AuthFailedReply, RequestReply(1), RequestReply(0)}

CtlStep(name, arg, c) ==
    /\ ctl' = [c EXCEPT !.op = Op(name, arg)]
    /\ UNCHANGED <<civ, lastOp, ret, ticks, calls, frames, m>>

CtlBegin == [ctl EXCEPT !.sent = <<>>]

\* A start that takes every login response for a success.
startAcceptAll(c, handshakeOk, randID, r) ==
    IF ~handshakeOk THEN [c EXCEPT !.pc = "failed", !.startErr = "handshake"]
    ELSE LET c1 == sendPktLogin([c EXCEPT !.authSendSeq = 1], randID)
         IN [sendPktAuth([c1 EXCEPT !.authID = SubSeq(r, 27, 32)], TRUE)
                EXCEPT !.pkt7Periodic = TRUE,
                       !.deinitNeededChan = TRUE,
                       !.pc = "running",
                       !.secondAuthTimer = "running"]

\* controlStream.start; handshakeOk is the outcome of the streamCommon calls
\* before the login, r the 96-byte packet expect() returned.
start(c, handshakeOk, randID, r) ==
    IF ~handshakeOk THEN [c EXCEPT !.pc = "failed", !.startErr = "handshake"]
    ELSE LET c1 == sendPktLogin([c EXCEPT !.authSendSeq = 1], randID)
         IN IF SubSeq(r, 49, 52) = <<255, 255, 255, 254>>
            THEN [c1 EXCEPT !.pc = "failed",
                            !.startErr = "invalid user/password"]
            ELSE [sendPktAuth([c1 EXCEPT !.authID = SubSeq(r, 27, 32)], TRUE)
                     EXCEPT !.pkt7Periodic = TRUE,
                            !.deinitNeededChan = TRUE,
                            !.pc = "running",
                            !.secondAuthTimer = "running"]

CtlStart ==
    /\ ctl.pc = "idle"
    /\ \E ok \in BOOLEAN, randID \in RandIDs, r \in LoginReplies :
          CtlStep("start", r, start(CtlBegin, ok, randID, r))

CtlLooping == ctl.pc \in {"running", "deinit"}

\* case <-s.secondAuthTimer.C
CtlSecondAuth ==
    /\ CtlLooping
    /\ ctl.secondAuthTimer = "running"
    /\ ctl.authSendSeq < MaxAuthSeq
    /\ CtlStep("secondAuth", <<>>,
               sendPktAuth([CtlBegin EXCEPT !.secondAuthTimer = "fired"], FALSE))

\* case r := <-s.common.readChan
loopRead(c, r, startErr) ==
    IF c.deinitializing THEN c
    ELSE LET res == handleRead(c, r, startErr)
         IN IF res.err = "" THEN res.c
            ELSE [res.c EXCEPT !.reported = @ \cup {res.err}]

CtlRead ==
    /\ CtlLooping
    /\ \E r \in CtlReplies, startErr \in {"", "serial start", "audio start"} :
          /\ loopRead(CtlBegin, r, startErr).authSendSeq <= MaxAuthSeq
          /\ Len(loopRead(CtlBegin, r, startErr).reqTimers) <= MaxReqTimers
          /\ CtlStep("read", r, loopRead(CtlBegin, r, startErr))

\* case <-pkt0SendTicker.C
CtlPkt0 ==
    /\ CtlLooping
    /\ ctl.authSendSeq < MaxAuthSeq
    /\ CtlStep("pkt0", <<>>, sendPkt0(CtlBegin))

\* case <-reauthTicker.C
CtlReauth ==
    /\ CtlLooping
    /\ ctl.authSendSeq < MaxAuthSeq
    /\ CtlStep("reauth", <<>>, sendPktAuth(CtlBegin, FALSE))

\* A request timer's callback: reportError(...).
CtlRequestTimeout ==
    \E i \in 1..Len(ctl.reqTimers) :
        /\ ctl.reqTimers[i] = "running"
        /\ CtlStep("requestTimeout", <<i>>,
                   [CtlBegin EXCEPT !.reqTimers[i] = "fired",
                                    !.reported = @ \cup
                                        {"serial and audio request timeout"}])

\* The engine with deinit calls that may overlap.
DeinitNext ==
    \/ CivInit
    \/ CivDeinitCall
    \/ CivDeinitTake
    \/ SetMainVFOFreq
    \/ LoopTop
    \/ LoopWake
    \/ LoopRetry
    \/ ShortTick

\* The end of deinit, after the rendezvous with the loop (or without one):
\* the request timer the field points to is stopped, the session is torn down.
deinitTail(c) ==
    LET f == c.requestSerialAndAudioTimeout
    IN [c EXCEPT !.reqTimers = [i \in 1..Len(@) |->
                     IF i = f /\ @[i] = "running" THEN "stopped" ELSE @[i]],
                 !.requestSerialAndAudioTimeout = 0,
                 !.commonDeinit = TRUE,
                 !.dReturned = @ + 1]

\* deinit up to its send on deinitNeededChan, where the caller waits for
\* the loop to receive; with no channel (start never got that far) to its end.
ctlDeinit(c) ==
    LET c1 == [c EXCEPT !.deinitializing = TRUE,
                        !.serialAndAudioStreamOpened = FALSE]
    IN IF c.deinitNeededChan
       THEN [c1 EXCEPT !.dSending = @ + 1,
                       !.pc = IF @ = "running" THEN "deinit" ELSE @]
       ELSE [deinitTail(c1) EXCEPT !.pc = "stopped"]

CtlDeinit ==
    /\ ctl.pc # "idle"
    /\ ctl.dSending + ctl.dWaiting + ctl.dReturned < MaxDeinits
    /\ CtlStep("deinit", <<>>, ctlDeinit(CtlBegin))

\* A loop that takes the deinit request without logout packet or grace timer.
loopDeinitNeededNoLogout(c) ==
    [c EXCEPT !.dSending = @ - 1, !.dWaiting = @ + 1,
              !.signals = @ + 1, !.logoutTimer = "running"]

\* case <-s.deinitNeededChan: the caller's send is received, the caller goes
\* on to wait on deinitFinishedChan.
loopDeinitNeeded(c) ==
    sendPktAuth([c EXCEPT !.dSending = @ - 1, !.dWaiting = @ + 1,
                          !.signals = @ + 1,
                          !.logoutTimer = "running",
                          !.logoutDuration = logoutGrace],
                FALSE)

CtlDeinitNeeded ==
    /\ CtlLooping
    /\ ctl.dSending > 0
    /\ CtlStep("deinitNeeded", <<>>, loopDeinitNeeded(CtlBegin))

\* case <-logoutTimer.C: the send on deinitFinishedChan releases one waiting
\* caller, which finishes its deinit; the loop returns.
loopLogout(c) ==
    [deinitTail([c EXCEPT !.dWaiting = @ - 1, !.logoutTimer = "fired"])
        EXCEPT !.pc = "stopped"]

CtlLogout ==
    /\ CtlLooping
    /\ ctl.logoutTimer = "running"
    /\ ctl.dWaiting > 0
    /\ CtlStep("logout", <<>>, loopLogout(CtlBegin))

CtlNext ==
    \/ CtlStart
    \/ CtlSecondAuth
    \/ CtlRead
    \/ CtlPkt0
    \/ CtlReauth
    \/ CtlRequestTimeout
    \/ CtlDeinit
    \/ CtlDeinitNeeded
    \/ CtlLogout

(***************************************************************************)
(* The inline session of main(): handshake, then the receive loop, one     *)
(* iteration per step.                                                     *)
(***************************************************************************)
MaxPings == 7
MaxTimeouts == 6

\* The 4 random bytes of a heartbeat, and the sequence bytes the peer uses.
RandID4s == {<<87, 43, 18, 0>>, <<120, 64, 246, 2>>}
PeerSeqs == {0, 1, 255}

mainState ==
    [pc |-> "start",
     op |-> Op("none", <<>>),
     remoteSID |-> Zeros(4),
     sendSeq |-> 0,
     lastReceivedSeq |-> 0,
     receivedSeq |-> FALSE,
     lastPingAt |-> FALSE,
     errCount |-> 0,
     timeouts |-> 0,
     fatal |-> "",
     lossLogged |-> FALSE,
     sent |-> <<>>]

mainLogin ==
    <<128, 0, 0, 0, 0, 0, 1, 0>> \o localSID \o remoteSID
        \o <<0, 0, 0, 112, 1, 0, 0, 34>> \o <<0, 0, 9, 39, 0, 0, 0, 0>>
        \o Zeros(32)
        \o <<43, 63, 85, 92, 0, 0, 0, 0>> \o Zeros(8)
        \o <<43, 63, 85, 92, 63, 37, 119, 88>> \o Zeros(8)
        \o <<105, 99, 111, 109, 45, 112, 99, 0>> \o Zeros(24)

\* Packets of the peer.
Pkt4In == <<16, 0, 0, 0, 4, 0, 0, 0>> \o remoteSID \o localSID

Pkt7In(seq, echo) ==
    <<0, 0, 0, 0, 7, 0, seq, 14>> \o remoteSID \o localSID \o <<0>> \o echo

Pkt0In(seq) == <<16, 0, 0, 0, 0, 0, seq, 0>> \o remoteSID \o localSID

MainPackets ==
    {Pkt7In(q, e) : q \in PeerSeqs, e \in RandID4s}
        \cup {Pkt0In(1)}
        \cup {LoginReply(mk, <<93, 55, 18, 130, 59, 222>>) :
                 mk \in {<<255, 255, 255, 254>>, <<0, 0, 0, 0>>}}

MainStep(name, arg, s) ==
    /\ m' = [s EXCEPT !.op = Op(name, arg)]
    /\ UNCHANGED <<civ, lastOp, ret, ticks, calls, frames, ctl>>

\* main() up to the first read: the pkt3 with the local session id.
MainConnect ==
    /\ m.pc = "start"
    /\ MainStep("connect", <<>>,
                [m EXCEPT !.pc = "waitPkt4",
                          !.sent = <<<<16, 0, 0, 0, 3, 0, 0, 0>> \o localSID
                                         \o Zeros(4)>>])

\* One pass of the loop that waits for pkt4; r is <<>> after a timeout.
mainWaitPkt4(s, r) ==
    IF Len(r) >= 12 /\ SubSeq(r, 1, 8) = <<16, 0, 0, 0, 4, 0, 0, 0>>
    THEN [s EXCEPT !.remoteSID = SubSeq(r, 9, 12),
                   !.pc = "loop",
                   !.sent = << <<16, 0, 0, 0, 6, 0, 1, 0>> \o localSID
                                   \o SubSeq(r, 9, 12),
                               mainLogin >>]
    ELSE [s EXCEPT !.sent = <<>>]

MainWaitPkt4 ==
    /\ m.pc = "waitPkt4"
    /\ \E r \in {<<>>, Pkt4In, Pkt0In(1)} :
          MainStep("waitPkt4", r, mainWaitPkt4(m, r))

\* A pkt7 reply without the ack marker at offset 16.
pkt7ReplyNoAck(s, r) ==
    <<21, 0, 0, 0, 7, 0, r[7], r[8]>> \o s.remoteSID \o localSID \o <<0>>
        \o SubSeq(r, 18, 21)

\* The reply to a received pkt7 and the session's own heartbeat.
pkt7Reply(s, r) ==
    <<21, 0, 0, 0, 7, 0, r[7], r[8]>> \o s.remoteSID \o localSID \o <<1>>
        \o SubSeq(r, 18, 21)

pkt7Own(s, randID) ==
    <<21, 0, 0, 0, 7, 0, s.sendSeq, 0>> \o s.remoteSID \o localSID \o <<1>>
        \o randID

\* An iteration that compares the sequences without the 8-bit wrap.
mainLoopNoWrap(s, r, err, due, randID) ==
    LET errCount1 == IF err THEN s.errCount + 1 ELSE s.errCount
        s0 == [s EXCEPT !.sent = <<>>, !.lossLogged = FALSE,
                        !.timeouts = IF err THEN @ + 1 ELSE 0]
        s1 == [s0 EXCEPT !.errCount = 0]
        is7 == Len(r) = 21 /\ SubSeq(r, 2, 6) = <<0, 0, 0, 7, 0>>
        s2 == IF is7
              THEN [s1 EXCEPT
                       !.lossLogged = s1.receivedSeq
                           /\ s1.lastReceivedSeq + 1 # r[7],
                       !.lastReceivedSeq = r[7],
                       !.receivedSeq = TRUE,
                       !.sent = Append(@, pkt7Reply(s1, r))]
              ELSE s1
        s3 == IF Len(r) = 16 /\ SubSeq(r, 1, 6) = <<16, 0, 0, 0, 0, 0>>
              THEN [s2 EXCEPT !.sent = Append(@,
                       <<16, 0, 0, 0, 0, 0, r[7], 0>> \o s2.remoteSID \o localSID)]
              ELSE s2
    IN IF err /\ errCount1 > 5
       THEN [s0 EXCEPT !.errCount = errCount1, !.pc = "fatal", !.fatal = "timeout"]
       ELSE IF Len(r) = 96 /\ SubSeq(r, 1, 8) = <<96, 0, 0, 0, 0, 0, 1, 0>>
                /\ SubSeq(r, 49, 52) = <<255, 255, 255, 254>>
       THEN [s1 EXCEPT !.pc = "fatal", !.fatal = "invalid user/password"]
       ELSE IF due \/ ~s.lastPingAt \/ err
       THEN [s3 EXCEPT !.sent = Append(@, pkt7Own(s3, randID)),
                       !.sendSeq = (@ + 1) % 256,
                       !.lastPingAt = TRUE]
       ELSE s3

\* One iteration of the session loop.  err: the read timed out (r is empty);
\* due: 100 ms have passed since lastPingAt.
mainLoop(s, r, err, due, randID) ==
    LET errCount1 == IF err THEN s.errCount + 1 ELSE s.errCount
        s0 == [s EXCEPT !.sent = <<>>, !.lossLogged = FALSE,
                        !.timeouts = IF err THEN @ + 1 ELSE 0]
        s1 == [s0 EXCEPT !.errCount = 0]
        is7 == Len(r) = 21 /\ SubSeq(r, 2, 6) = <<0, 0, 0, 7, 0>>
        s2 == IF is7
              THEN [s1 EXCEPT
                       !.lossLogged = s1.receivedSeq
                           /\ (s1.lastReceivedSeq + 1) % 256 # r[7],
                       !.lastReceivedSeq = r[7],
                       !.receivedSeq = TRUE,
                       !.sent = Append(@, pkt7Reply(s1, r))]
              ELSE s1
        s3 == IF Len(r) = 16 /\ SubSeq(r, 1, 6) = <<16, 0, 0, 0, 0, 0>>
              THEN [s2 EXCEPT !.sent = Append(@,
                       <<16, 0, 0, 0, 0, 0, r[7], 0>> \o s2.remoteSID \o localSID)]
              ELSE s2
    IN IF err /\ errCount1 > 5
       THEN [s0 EXCEPT !.errCount = errCount1, !.pc = "fatal", !.fatal = "timeout"]
       ELSE IF Len(r) = 96 /\ SubSeq(r, 1, 8) = <<96, 0, 0, 0, 0, 0, 1, 0>>
                /\ SubSeq(r, 49, 52) = <<255, 255, 255, 254>>
       THEN [s1 EXCEPT !.pc = "fatal", !.fatal = "invalid user/password"]
       ELSE IF due \/ ~s.lastPingAt \/ err
       THEN [s3 EXCEPT !.sent = Append(@, pkt7Own(s3, randID)),
                       !.sendSeq = (@ + 1) % 256,
                       !.lastPingAt = TRUE]
       ELSE s3

MainLoopTimeout ==
    /\ m.pc = "loop"
    /\ m.timeouts < MaxTimeouts
    /\ m.sendSeq < MaxPings
    /\ \E randID \in RandID4s :
          MainStep("timeout", <<>>, mainLoop(m, <<>>, TRUE, TRUE, randID))

MainLoopRead ==
    /\ m.pc = "loop"
    /\ \E r \in MainPackets, due \in BOOLEAN, randID \in RandID4s :
          /\ mainLoop(m, r, FALSE, due, randID).sendSeq <= MaxPings
          /\ MainStep("read", r, mainLoop(m, r, FALSE, due, randID))

\* read(): an error other than a timeout is fatal at once.
MainReadError ==
    /\ m.pc \in {"waitPkt4", "loop"}
    /\ MainStep("readError", <<>>,
                [m EXCEPT !.pc = "fatal", !.fatal = "read error", !.sent = <<>>])

\* The heartbeat alone, through one whole turn of sendSeq: iterations that
\* read a packet with the 100 ms since the last heartbeat over, until the
\* counter is back at the value it started with.
MainHeartbeat ==
    /\ m.pc = "loop"
    /\ ~(m.lastPingAt /\ m.sendSeq = 0)
    /\ \E r \in {Pkt0In(1), Pkt7In(0, <<87, 43, 18, 0>>)} :
          MainStep("read", r, mainLoop(m, r, FALSE, TRUE, <<120, 64, 246, 2>>))

SeqNext ==
    \/ MainConnect
    \/ MainWaitPkt4
    \/ MainHeartbeat

MainNext ==
    \/ MainConnect
    \/ MainReadError
    \/ MainWaitPkt4
    \/ MainLoopTimeout
    \/ MainLoopRead

CivInitState ==
    /\ civ = civControlStruct
    /\ lastOp = Op("none", <<>>)
    /\ ret = "nil"
    /\ ticks = 0
    /\ calls = 0
    /\ frames = 0

Init ==
    /\ CivInitState
    /\ ctl = controlStream
    /\ m = mainState

Spec == Init /\ [][CivNext]_vars

SpecTx == Init /\ [][TxNext]_vars

SpecCtl == Init /\ [][CtlNext]_vars

SpecMain == Init /\ [][MainNext]_vars

SpecDeinit == Init /\ [][DeinitNext]_vars

SpecDec == Init /\ [][DecNext]_vars

SpecCodec == Init /\ [][CodecNext]_vars

SpecCmd == Init /\ [][CmdNext]_vars

SpecRace == Init /\ [][RaceNext]_vars

SpecPoll == Init /\ [][PollNext]_vars

SpecSeq == Init /\ [][SeqNext]_vars

SpecBare == Init /\ [][BareNext]_vars

\* The loop's goroutine is scheduled and time goes on; the radio and the
\* callers are under no obligation.
\* Weak fairness of LoopTop and of LoopRetry is written out, with their
\* enabling conditions as state predicates: both steps move loopPc, so they
\* are enabled exactly when their guards hold.
LoopTopEnabled == Alive /\ civ.loopPc = "top"

LoopRetryEnabled ==
    /\ Alive
    /\ civ.loopPc = "select" /\ ~civ.wake
    /\ civ.selWait >= civ.nextPendingCmdTimeout

SpecLive ==
    /\ Init
    /\ [][LiveNext]_vars
    /\ ([]<>(~LoopTopEnabled) \/ []<><<LoopTop>>_vars)
    /\ WF_vars(LoopPoll)
    /\ ([]<>(~LoopRetryEnabled) \/ []<><<LoopRetry>>_vars)
    /\ WF_vars(LivePass)


(***************************************************************************)
(* Properties of the CI-V engine.                                          *)
(***************************************************************************)
\* The slots a decoded step removed from the pending state.
Cleared == {n \in CmdNames : civ.cmds[n].pending /\ ~civ'.cmds[n].pending}

\* The commands a frame answers, after the decode routing table: the
\* command byte and, where the command has one, the sub-command or selector.
MatchingCmds(d) ==
    IF Len(d) < 7 THEN {}
    ELSE CASE d[5] = 16 -> {"getTS", "setTS"}
           [] d[5] = 37 /\ d[6] = 0 -> {"getMainVFOFreq", "setMainVFOFreq"}
           [] d[5] = 37 /\ d[6] = 1 -> {"getSubVFOFreq", "setSubVFOFreq"}
           [] d[5] = 28 /\ d[6] = 0 -> {"getTransmitStatus", "setPTT"}
           [] d[5] = 28 /\ d[6] = 1 -> {"getTuneStatus", "setTune"}
           [] d[5] = 21 /\ d[6] = 21 -> {"getVd"}
           [] d[5] = 21 /\ d[6] = 2 -> {"getS"}
           [] d[5] = 21 /\ d[6] = 18 -> {"getSWR"}
           [] OTHER -> {}

\* C1: the pending-command table holds each command slot at most once,
\* whatever calls, retransmissions and decoded replies came before.
C1_PendingOnce ==
    \A i, j \in 1..Len(civ.pendingCmds) :
        i # j => civ.pendingCmds[i] # civ.pendingCmds[j]

\* C1 witness: the loop has just retransmitted pending commands.
C1_Witness ==
    /\ lastOp.op = "loopRetry"
    /\ Len(civ.sent) > 0
    /\ Len(civ.pendingCmds) >= 19

\* C2: a retry step of the loop resends exactly the pending commands whose
\* age has reached commandRetryTimeout, with the bytes of their slots, in
\* table order; each stays pending in its slot with sentAt set to now; the
\* younger ones and the table are left alone, and nothing is reported.
C2_Overdue(c) ==
    SelectSeq(c.pendingCmds,
              LAMBDA n : c.cmds[n].sinceSent >= commandRetryTimeout)

C2_RetryStep ==
    lastOp'.op = "loopRetry" =>
        /\ civ'.pendingCmds = civ.pendingCmds
        /\ civ'.sent = [i \in 1..Len(C2_Overdue(civ)) |->
                           civ.cmds[C2_Overdue(civ)[i]].cmd]
        /\ \A n \in CmdNames :
              IF \E i \in 1..Len(C2_Overdue(civ)) : C2_Overdue(civ)[i] = n
              THEN /\ civ'.cmds[n].pending
                   /\ civ'.cmds[n].sinceSent = 0
                   /\ civ'.cmds[n].cmd = civ.cmds[n].cmd
              ELSE civ'.cmds[n] = civ.cmds[n]
        /\ ret' = "nil"
        /\ ~civ'.panicked

C2_Retry == [][C2_RetryStep]_vars

\* C2 witness: 500 ms after the initial burst, unanswered, the loop has
\* resent the whole burst.
C2_Witness ==
    /\ lastOp.op = "loopRetry"
    /\ ticks >= 1
    /\ frames = 0
    /\ Len(civ.sent) = 19
    /\ \A i \in 1..Len(civ.pendingCmds) :
          /\ civ.cmds[civ.pendingCmds[i]].pending
          /\ civ.cmds[civ.pendingCmds[i]].sinceSent = 0

\* C3 (as claimed): decoding a well-formed frame that answers a pending
\* command removes one such command and nothing else and returns false;
\* when no command it answers is pending, nothing is removed and decode
\* returns true.
C3_DecodeStep ==
    (lastOp'.op = "decode" /\ Len(lastOp'.arg) >= 7) =>
        LET answered == {n \in MatchingCmds(lastOp'.arg) : civ.cmds[n].pending}
        IN IF answered # {}
           THEN /\ ret' = "false"
                /\ Cardinality(Cleared) = 1
                /\ Cleared \subseteq answered
                /\ \A n \in Cleared :
                      \A i \in 1..Len(civ'.pendingCmds) : civ'.pendingCmds[i] # n
           ELSE ret' = "true" /\ Cleared = {}

C3_DecodeClearsMatching == [][C3_DecodeStep]_vars

\* C4 (as claimed): when a decoded frame clears the pending setMainVFOFreq,
\* state.freq is the frequency that was set.
C4_AckStep ==
    (/\ lastOp'.op = "decode"
     /\ civ.cmds["setMainVFOFreq"].pending
     /\ ~civ'.cmds["setMainVFOFreq"].pending) =>
        civ.cmds["setMainVFOFreq"].cmd =
            Cmd(<<37, 0>> \o encodeFreqData(civ'.freq))

C4_AckedFreq == [][C4_AckStep]_vars

\* C5 (as claimed): whenever the PTT timer fires, the setPTT(false) frame
\* FE FE <civAddress> E0 1C 00 00 FD is emitted.
C5_FireEmits ==
    [][lastOp'.op = "pttTimer" => civ'.sent = <<Cmd(<<28, 0, 0>>)>>]_vars

\* C5 (amended): setPTT(true) arms a timer of pttTimeout; a running PTT
\* timer goes away only by firing when its time is up or by a decoded PTT
\* release while state.ptt is set; and when it fires with the serial stream
\* attached, exactly the setPTT(false) frame is emitted and setPTT is pending.
C5_TimerStep ==
    /\ lastOp' = Op("setPTT", <<1>>) =>
          civ'.pttTimers = Append(civ.pttTimers, pttTimeout)
    /\ Len(civ'.pttTimers) < Len(civ.pttTimers) =>
          \/ lastOp'.op = "pttTimer" /\ Head(civ.pttTimers) = 0
          \/ lastOp' = Op("decode", FrPTTOff) /\ civ.ptt
    /\ (lastOp'.op = "pttTimer" /\ civ.st) =>
          /\ civ'.sent = <<Cmd(<<28, 0, 0>>)>>
          /\ civ'.cmds["setPTT"].pending
    /\ \A i \in 1..Len(civ.pttTimers) : civ.pttTimers[i] >= 0

C5_PttTimer == [][C5_TimerStep]_vars

\* C5 witness: the timer armed by setPTT(true) has fired on a running engine
\* and the setPTT(false) frame went out.
C5_Witness ==
    /\ lastOp.op = "pttTimer"
    /\ civ.st
    /\ civ.sent = <<Cmd(<<28, 0, 0>>)>>

\* C6: setTune(true) while state.ptt is set returns nil and changes nothing:
\* no frame, no timer, the setTune slot and the pending table as before.
C6_TuneDropped ==
    [][(lastOp' = Op("setTune", <<1>>) /\ civ.ptt) =>
          (civ' = [civ EXCEPT !.sent = <<>>] /\ ret' = "nil")]_vars

\* C6 witness: setTune(true) was called on a running engine with ptt set.
C6_Witness ==
    /\ lastOp = Op("setTune", <<1>>)
    /\ civ.ptt
    /\ civ.st
    /\ civ.sent = <<>>
    /\ civ.tuneTimers = <<>>


(***************************************************************************)
(* Properties of the session loop of main() and of the control stream.     *)
(***************************************************************************)
\* C7 (as claimed): five consecutive receive timeouts end the session with
\* the fatal "timeout", and it ends that way only after five of them.
C7_FiveTimeoutsFatal ==
    /\ m.timeouts >= 5 => (m.pc = "fatal" /\ m.fatal = "timeout")
    /\ m.fatal = "timeout" => m.timeouts >= 5

\* C8: when the login response carries FF FF FF FE at offsets 48..52, start
\* fails with "invalid user/password", the authID stays unset, no auth packet
\* goes out and neither the heartbeat nor the loop is started; with any other
\* value start succeeds, authID is bytes 26..32 of the response and the first
\* auth packet carries it.  authID never changes afterwards and every auth
\* (0x40) and request (0x90) packet sent carries it at offsets 26..32.
C8_Stamped(c) ==
    \A i \in 1..Len(c.sent) :
        (c.sent[i][1] \in {64, 144} /\ c.pc # "failed") =>
            SubSeq(c.sent[i], 27, 32) = c.authID

C8_StartStep ==
    /\ (ctl'.op.op = "start" /\ ctl'.startErr # "handshake") =>
          IF SubSeq(ctl'.op.arg, 49, 52) = <<255, 255, 255, 254>>
          THEN /\ ctl'.pc = "failed"
               /\ ctl'.startErr = "invalid user/password"
               /\ ctl'.authID = Zeros(6)
               /\ \A i \in 1..Len(ctl'.sent) : ctl'.sent[i][1] # 64
               /\ ~ctl'.pkt7Periodic
               /\ ctl'.secondAuthTimer = "nil"
          ELSE /\ ctl'.pc = "running"
               /\ ctl'.startErr = ""
               /\ ctl'.authID = SubSeq(ctl'.op.arg, 27, 32)
               /\ ctl'.pkt7Periodic
               /\ Len(ctl'.sent) = 4
               /\ ctl'.sent[3][1] = 64 /\ ctl'.sent[3][22] = 2
               /\ ctl'.sent[4] = ctl'.sent[3]
    /\ ctl.pc # "idle" => ctl'.authID = ctl.authID
    /\ C8_Stamped(ctl')
    /\ ctl'.pc = "failed" => ctl'.sent = <<>> \/ ctl'.op.op = "start"

C8_LoginRejected == [][C8_StartStep]_vars

\* C8 witness: start has returned "invalid user/password".
C8_Witness ==
    /\ ctl.op.op = "start"
    /\ ctl.pc = "failed"
    /\ ctl.startErr = "invalid user/password"
    /\ Len(ctl.sent) = 2

\* C9 (as claimed): once the streams are opened, no request timer is left
\* running, so that no request timeout can be reported afterwards.
C9_TimersCancelled ==
    ctl.serialAndAudioStreamOpened =>
        \A i \in 1..Len(ctl.reqTimers) : ctl.reqTimers[i] # "running"

\* C10: a loop iteration that read a pkt7 sends, first, one 21-byte pkt7 with
\* the sequence byte and the 4 trailing bytes of the request and 0x01 at
\* offset 16; the only other packet of the iteration is the session's own
\* heartbeat, numbered sendSeq, when it is due; the session goes on.
C10_ReplyStep ==
    (/\ m'.op.op = "read"
     /\ Len(m'.op.arg) = 21
     /\ SubSeq(m'.op.arg, 2, 6) = <<0, 0, 0, 7, 0>>) =>
        LET r == m'.op.arg
            own == IF m'.sendSeq # m.sendSeq THEN 1 ELSE 0
        IN /\ Len(m'.sent) = 1 + own
           /\ Len(m'.sent[1]) = 21
           /\ SubSeq(m'.sent[1], 1, 6) = <<21, 0, 0, 0, 7, 0>>
           /\ m'.sent[1][7] = r[7]
           /\ m'.sent[1][17] = 1
           /\ SubSeq(m'.sent[1], 18, 21) = SubSeq(r, 18, 21)
           /\ own = 1 => m'.sent[2][7] = m.sendSeq
           /\ m'.pc = "loop"
           /\ m'.lastReceivedSeq = r[7]

C10_Pkt7Answered == [][C10_ReplyStep]_vars

\* C10 witness: an iteration that read a pkt7 and sent both the reply and
\* the session's own heartbeat.
C10_Witness ==
    /\ m.op.op = "read"
    /\ Len(m.op.arg) = 21
    /\ Len(m.sent) = 2
    /\ m.sent[1][7] = m.op.arg[7]


\* C11 (as claimed): once a deinit of the control stream has completed, no
\* other deinit call is left blocked on the deinit channels, and the loop
\* was signalled (and sent its logout packet) at most once.
C11_SecondDeinitNoop ==
    ctl.dReturned >= 1 =>
        /\ ctl.dSending = 0
        /\ ctl.dWaiting = 0
        /\ ctl.signals <= 1

\* C13: the loop answers a deinit request with the logout auth packet (magic
\* 0x05, sent twice) and arms the logout timer with 3.3 s, finishing nothing
\* yet; the loop exits, a deinit call returns and the session is torn down
\* only in the step of the logout timer, which sends nothing and comes after
\* a request was taken and the timer armed.
C13_Step ==
    /\ ctl'.op.op = "deinitNeeded" =>
          /\ Len(ctl'.sent) = 2
          /\ Len(ctl'.sent[1]) = 64 /\ ctl'.sent[1][1] = 64
          /\ ctl'.sent[1][22] = 5
          /\ ctl'.sent[2] = ctl'.sent[1]
          /\ ctl'.logoutTimer = "running"
          /\ ctl'.logoutDuration = logoutGrace
          /\ ctl'.dReturned = ctl.dReturned
          /\ ~ctl'.commonDeinit
          /\ ctl'.pc = "deinit"
    /\ (ctl.deinitNeededChan
          /\ \/ ctl'.pc = "stopped" /\ ctl.pc # "stopped"
             \/ ctl'.dReturned > ctl.dReturned
             \/ ctl'.commonDeinit /\ ~ctl.commonDeinit) =>
          /\ ctl'.op.op = "logout"
          /\ ctl.logoutTimer = "running"
          /\ ctl.logoutDuration = logoutGrace
          /\ ctl.signals >= 1
          /\ ctl'.sent = <<>>

C13_TeardownOrdered == [][C13_Step]_vars

\* C13 witness: one deinit went through request, logout packet, grace timer
\* and release.
C13_Witness ==
    /\ ctl.op.op = "logout"
    /\ ctl.pc = "stopped"
    /\ ctl.signals = 1
    /\ ctl.dReturned = 1
    /\ ctl.commonDeinit


\* C12 (as claimed): a deinit call on an engine that is not initialised
\* returns at once and changes nothing, and of deinit calls that overlap
\* none stays blocked on the deinit channel.
C12_NoopStep ==
    (lastOp'.op = "deinitCall" /\ ~civ.deinitNeeded) =>
        civ' = [civ EXCEPT !.sent = <<>>, !.dinReturned = @ + 1]

C12_DeinitNoop == [][C12_NoopStep]_vars /\ [](civ.dinStuck = 0)

\* C14 (as claimed): whatever frames are decoded, the index fields stay in
\* the range of their tables: operatingModeIdx and subOperatingModeIdx in
\* 0..9, filterIdx and subFilterIdx in 0..2, bandIdx in 0..14.
C14_IdxInRange ==
    /\ civ.operatingModeIdx \in 0..(Len(civOperatingModes) - 1)
    /\ civ.subOperatingModeIdx \in 0..(Len(civOperatingModes) - 1)
    /\ civ.filterIdx \in 0..(Len(civFilters) - 1)
    /\ civ.subFilterIdx \in 0..(Len(civFilters) - 1)
    /\ civ.bandIdx \in 0..(Len(civBandFrom) - 1)

\* C15 (as claimed): the four stored percentages are always in 0..100.
C15_PercentInRange ==
    /\ civ.pwrPercent \in 0..100
    /\ civ.rfGainPercent \in 0..100
    /\ civ.sqlPercent \in 0..100
    /\ civ.nrPercent \in 0..100

\* Whether band row i (Go index i - 1) holds frequency f.
InBand(i, f) == civBandFrom[i] <= f /\ f <= civBandTo[i]

\* A decode step that handles a frequency frame of the main VFO (selector
\* byte other than 01), and one of the sub VFO.
MainFreqStep ==
    /\ lastOp'.op = "decode" /\ ret' # "panic"
    /\ Len(lastOp'.arg) >= 8
    /\ lastOp'.arg[1] = 254 /\ lastOp'.arg[2] = 254
    /\ lastOp'.arg[Len(lastOp'.arg)] = 253
    /\ lastOp'.arg[5] = 37 /\ lastOp'.arg[6] # 1

SubFreqStep ==
    /\ lastOp'.op = "decode"
    /\ Len(lastOp'.arg) >= 8
    /\ lastOp'.arg[1] = 254 /\ lastOp'.arg[2] = 254
    /\ lastOp'.arg[Len(lastOp'.arg)] = 253
    /\ lastOp'.arg[5] = 37 /\ lastOp'.arg[6] = 1

\* C16: after a decoded main-VFO frequency frame bandIdx is the index of the
\* first band row whose range holds state.freq and that row caches
\* state.freq, or bandIdx is 14 when no row holds it; a sub-VFO frequency
\* frame leaves bandIdx and the band table as they were.
C16_Step ==
    /\ MainFreqStep =>
          LET f == civ'.freq
              b == civ'.bandIdx + 1
          IN IF \E i \in 1..15 : InBand(i, f)
             THEN /\ b \in 1..15
                  /\ InBand(b, f)
                  /\ \A j \in 1..(b - 1) : ~InBand(j, f)
                  /\ civ'.civBands[b] = f
                  /\ \A j \in 1..15 : j # b => civ'.civBands[j] = civ.civBands[j]
             ELSE /\ civ'.bandIdx = 14
                  /\ civ'.civBands = civ.civBands
    /\ SubFreqStep =>
          /\ civ'.bandIdx = civ.bandIdx
          /\ civ'.civBands = civ.civBands
          /\ civ'.freq = civ.freq

C16_BandOfFreq == [][C16_Step]_vars

\* C16 witness: a main-VFO frame outside every band row was decoded after a
\* frame in the 14 MHz row, which stays cached.
C16_Witness ==
    /\ lastOp = Op("decode", FrMainFreqNoBand)
    /\ civ.freq = 500000
    /\ civ.bandIdx = 14
    /\ civ.civBands[5] = 14250000

\* A message decode passes on unread: shorter than 6 bytes, or not starting
\* with FE FE, or not ending with FD.
Malformed(d) ==
    \/ Len(d) < 6
    \/ d[1] # 254
    \/ d[2] # 254
    \/ d[Len(d)] # 253

\* C18: decode of a malformed message returns true and leaves the device
\* state, the command slots and the pending table as they were.
C18_Step ==
    (lastOp'.op = "decode" /\ Malformed(lastOp'.arg)) =>
        /\ ret' = "true"
        /\ civ' = [civ EXCEPT !.sent = <<>>]

C18_MalformedUntouched == [][C18_Step]_vars

\* C18 witness: a message with the content of a main-VFO frequency frame but
\* without the closing FD was handed to decode while commands were pending
\* and the frequency it carries was not taken over.
C18_Witness ==
    /\ lastOp = Op("decode", FrNoEnd)
    /\ ret = "true"
    /\ civ.cmds["getMainVFOFreq"].pending
    /\ civ.cmds["setMainVFOFreq"].pending
    /\ civ.pendingCmds # <<>>
    /\ civ.freq = 0

\* C19 (as claimed): on an initialised engine setMainVFOFreq(14250000) emits
\* exactly FE FE A4 E0 25 00 00 00 25 14 00 FD, and the decode of the reply
\* FE FE E0 A4 25 00 00 00 25 14 00 FD while that command is pending leaves
\* state.freq = 14250000, bandIdx = 4, the setMainVFOFreq slot not pending
\* and returns false.
C19_EmitStep ==
    (lastOp' = Op("setMainVFOFreq", <<14250000>>) /\ civ.st) =>
        civ'.sent = << <<254, 254, 164, 224, 37, 0, 0, 0, 37, 20, 0, 253>> >>

C19_ReplyStep ==
    (/\ lastOp' = Op("decode", <<254, 254, 224, 164, 37, 0, 0, 0, 37, 20, 0, 253>>)
     /\ civ.cmds["setMainVFOFreq"].pending
     /\ civ.cmds["setMainVFOFreq"].cmd =
            <<254, 254, 164, 224, 37, 0, 0, 0, 37, 20, 0, 253>>) =>
        /\ civ'.freq = 14250000
        /\ civ'.bandIdx = 4
        /\ ~civ'.cmds["setMainVFOFreq"].pending
        /\ ret' = "false"

C19_FreqSetEndToEnd == [][C19_EmitStep /\ C19_ReplyStep]_vars

\* C19 (amended): as claimed, except that the reply clears the
\* setMainVFOFreq slot only when no getMainVFOFreq is pending; when one is,
\* the reply clears getMainVFOFreq and setMainVFOFreq stays pending.
C19_ReplyStepAmended ==
    (/\ lastOp' = Op("decode", <<254, 254, 224, 164, 37, 0, 0, 0, 37, 20, 0, 253>>)
     /\ civ.cmds["setMainVFOFreq"].pending
     /\ civ.cmds["setMainVFOFreq"].cmd =
            <<254, 254, 164, 224, 37, 0, 0, 0, 37, 20, 0, 253>>) =>
        /\ civ'.freq = 14250000
        /\ civ'.bandIdx = 4
        /\ ret' = "false"
        /\ IF civ.cmds["getMainVFOFreq"].pending
           THEN /\ ~civ'.cmds["getMainVFOFreq"].pending
                /\ civ'.cmds["setMainVFOFreq"].pending
           ELSE ~civ'.cmds["setMainVFOFreq"].pending

C19_FreqSet == [][C19_EmitStep /\ C19_ReplyStepAmended]_vars

\* C19 witness: the reply cleared the pending setMainVFOFreq(14250000).
C19_Witness ==
    /\ lastOp = Op("decode", FrMainFreqA)
    /\ ret = "false"
    /\ civ.cmds["setMainVFOFreq"].cmd = Cmd(<<37, 0, 0, 0, 37, 20, 0>>)
    /\ ~civ.cmds["setMainVFOFreq"].pending
    /\ ~civ.cmds["getMainVFOFreq"].pending
    /\ civ.freq = 14250000
    /\ civ.bandIdx = 4

\* A decode step that handles an S-meter frame (15 02 with two value bytes).
SMeterStep ==
    /\ lastOp'.op = "decode"
    /\ Len(lastOp'.arg) >= 9
    /\ ~Malformed(lastOp'.arg)
    /\ lastOp'.arg[5] = 21 /\ lastOp'.arg[6] = 2

\* C20 (as claimed): the decode of FE FE E0 A4 15 02 01 20 FD reports the
\* S-meter string "S5" and updates lastSReceivedAt.
C20_S5 ==
    [][lastOp' = Op("decode", <<254, 254, 224, 164, 21, 2, 1, 32, 253>>) =>
          (civ'.sStr = "S5" /\ civ'.sinceS = 0)]_vars

\* The S-meter string of level n: S0..S9, then S9+10, +20, +30, +40 for
\* 13..16, +50 for 17 and 18, +60 above.
SLadder(n) ==
    CASE n = 0 -> "S0" [] n = 1 -> "S1" [] n = 2 -> "S2" [] n = 3 -> "S3"
      [] n = 4 -> "S4" [] n = 5 -> "S5" [] n = 6 -> "S6" [] n = 7 -> "S7"
      [] n = 8 -> "S8" [] n = 9 -> "S9" [] n = 10 -> "S9+10"
      [] n = 11 -> "S9+20" [] n = 12 -> "S9+30"
      [] n \in 13..16 -> "S9+40" [] n \in 17..18 -> "S9+50"
      [] OTHER -> "S9+60"

\* C20 (amended): the decode of an S-meter frame with value v reports the
\* ladder string of the level nearest to v * 18 / 0x0241 and updates
\* lastSReceivedAt; for FE FE E0 A4 15 02 01 20 FD (v = 0x0120) that string
\* is "S9".
C20_Step ==
    /\ SMeterStep =>
          LET v == lastOp'.arg[7] * 256 + lastOp'.arg[8]
          IN /\ civ'.sinceS = 0
             /\ \E n \in 0..2045 :
                   /\ 2 * 18 * v >= (2 * n - 1) * 577
                   /\ 2 * 18 * v < (2 * n + 1) * 577
                   /\ civ'.sStr = SLadder(n)
    /\ lastOp' = Op("decode", <<254, 254, 224, 164, 21, 2, 1, 32, 253>>) =>
          civ'.sStr = "S9"

C20_SMeter == [][C20_Step]_vars

\* C20 witness: the frame of the example was decoded and reported.
C20_Witness ==
    /\ lastOp = Op("decode", FrS)
    /\ civ.sStr = "S9"
    /\ civ.sinceS = 0
    /\ ret = "false"

\* C17: encodeFreqData(f) is 5 bytes of two decimal digits each, the low
\* nibble of byte i the digit of 10^(2i) and the high nibble the digit of
\* 10^(2i+1), and decoding the bytes gives f again.
C17_EncodeStep ==
    (lastOp'.op = "setMainVFOFreq" /\ civ.st) =>
        /\ Len(civ'.sent) = 1
        /\ Len(civ'.sent[1]) = 12
        /\ SubSeq(civ'.sent[1], 1, 6) = <<254, 254, civAddress, 224, 37, 0>>
        /\ civ'.sent[1][12] = 253
        /\ \A i \in 0..4 :
              LET b == civ'.sent[1][7 + i]
                  f == lastOp'.arg[1]
              IN /\ b % 16 = (f \div Pow10(2 * i)) % 10
                 /\ b \div 16 = (f \div Pow10(2 * i + 1)) % 10

C17_DecodeStep ==
    (/\ lastOp.op = "setMainVFOFreq"
     /\ civ.sent # <<>>
     /\ lastOp'.op = "decode"
     /\ lastOp'.arg = Echo(civ.sent[1])) =>
        civ'.freq = lastOp.arg[1]

C17_RoundTrip == [][C17_EncodeStep /\ C17_DecodeStep]_vars

\* C17 witness: 1234567890 went out as 90 78 56 34 12 and came back.
C17_Witness ==
    /\ lastOp = Op("decode", Reply(<<37, 0, 144, 120, 86, 52, 18>>))
    /\ civ.cmds["setMainVFOFreq"].cmd = Cmd(<<37, 0, 144, 120, 86, 52, 18>>)
    /\ civ.freq = 1234567890

\* The split mode toggleSplit asks for when the state holds mode, and the
\* data byte of the 0x0F frame that asks for a mode.
NextSplit(mode) ==
    CASE mode = splitModeOff -> splitModeOn
      [] mode = splitModeOn -> splitModeDUPMinus
      [] mode = splitModeDUPMinus -> splitModeDUPPlus
      [] OTHER -> splitModeOff

SplitByte(mode) ==
    CASE mode = splitModeOn -> 1
      [] mode = splitModeDUPMinus -> 17
      [] mode = splitModeDUPPlus -> 18
      [] OTHER -> 16

\* C21 (as claimed): each toggleSplit call moves state.splitMode one step
\* along off -> on -> DUP- -> DUP+ -> off and emits the 0x0F frame with the
\* byte of the mode it moved to (01, 11, 12, 10).
C21_ToggleMoves ==
    [][(lastOp'.op = "toggleSplit" /\ civ.st) =>
          /\ civ'.splitMode = NextSplit(civ.splitMode)
          /\ civ'.sent = << Cmd(<<15, SplitByte(civ'.splitMode)>>) >>]_vars

\* C21 (amended): a toggleSplit call emits the 0x0F frame with the byte of
\* the mode after state.splitMode in the cycle and leaves state.splitMode
\* alone; state.splitMode changes only by a decoded 0x0F frame, to the
\* mode that frame carries.
C21_Step ==
    /\ (lastOp'.op = "toggleSplit" /\ civ.st) =>
          /\ civ'.sent = << Cmd(<<15, SplitByte(NextSplit(civ.splitMode))>>) >>
          /\ civ'.splitMode = civ.splitMode
          /\ civ'.cmds["setSplit"].pending
    /\ civ'.splitMode # civ.splitMode =>
          /\ lastOp'.op = "decode"
          /\ lastOp'.arg[5] = 15
          /\ SplitByte(civ'.splitMode) =
                IF lastOp'.arg[6] \in {1, 17, 18} THEN lastOp'.arg[6] ELSE 16

C21_SplitCycle == [][C21_Step]_vars

\* C21 witness: the fourth call of the cycle: the state holds DUP+ (which
\* only a decoded 0F 12 frame sets) and toggleSplit emitted 0F 10.
C21_Witness ==
    /\ lastOp.op = "toggleSplit"
    /\ civ.splitMode = splitModeDUPPlus
    /\ civ.sent = << Cmd(<<15, 16>>) >>

\* C22 (as claimed): incTS emits code 0 at tsValue 13 and tsValue + 1
\* otherwise, decTS emits code 13 at tsValue 0 and tsValue - 1 otherwise,
\* and the emitted code is always in 0..13.
C22_Step ==
    /\ (lastOp'.op = "incTS" /\ civ.st) =>
          /\ civ'.sent = << Cmd(<<16, IF civ.tsValue = 13 THEN 0
                                       ELSE civ.tsValue + 1>>) >>
          /\ civ'.sent[1][6] \in 0..13
    /\ (lastOp'.op = "decTS" /\ civ.st) =>
          /\ civ'.sent = << Cmd(<<16, IF civ.tsValue = 0 THEN 13
                                       ELSE civ.tsValue - 1>>) >>
          /\ civ'.sent[1][6] \in 0..13

C22_TSWrap == [][C22_Step]_vars

\* C23 (as claimed): whenever the tune timer fires on an initialised engine
\* the tune-off frame FE FE <civAddress> E0 1C 01 01 FD is emitted, whatever
\* state.ptt is.
C23_TuneTimerForcesOff ==
    [][(lastOp'.op = "tuneTimer" /\ civ.st) =>
          civ'.sent = << Cmd(<<28, 1, 1>>) >>]_vars

\* C24 (as claimed): on an initialised engine every step that
\* changes pendingCmds or a command slot is made by a thread that holds the
\* engine mutex, while no other thread is inside an update of the table,
\* and at no time are two threads inside such an update together.
C24_Step ==
    (/\ civ.st
     /\ civ'.pendingCmds # civ.pendingCmds \/ civ'.cmds # civ.cmds) =>
        /\ HoldsMutex(lastOp'.op)
        /\ civ.inSend = <<>>

C24_MutexHeld == [][C24_Step]_vars /\ [](Len(civ.inSend) <= 1)

\* C26 (as claimed): the timeout the loop computes at its top is the least
\* of commandRetryTimeout - (time since sentAt) over the pending commands,
\* not below 0.
C26_Remaining(n) ==
    IF civ.cmds[n].sinceSent >= commandRetryTimeout THEN 0
    ELSE commandRetryTimeout - civ.cmds[n].sinceSent

C26_Step ==
    (lastOp'.op = "loopTop" /\ civ.pendingCmds # <<>>) =>
        /\ \E i \in 1..Len(civ.pendingCmds) :
              civ'.nextPendingCmdTimeout = C26_Remaining(civ.pendingCmds[i])
        /\ \A i \in 1..Len(civ.pendingCmds) :
              civ'.nextPendingCmdTimeout <= C26_Remaining(civ.pendingCmds[i])

C26_SoonestRetry == [][C26_Step]_vars

\* C25 (as claimed): when the engine's deinit has finished, no PTT timer, no
\* tune timer and no scheduled transmit-status poll is left running.
C25_DeinitStopsTimers ==
    (civ.loopPc = "exited" /\ ~civ.st) =>
        /\ civ.pttTimers = <<>>
        /\ civ.tuneTimers = <<>>
        /\ civ.txPollTimers = <<>>

\* Whether a poll step sent the request with body b.
Requested(b) == \E i \in 1..Len(civ'.sent) : civ'.sent[i] = Cmd(b)

\* C27 (as claimed): a poll tick requests the VFO frequencies only if no
\* VFO frequency frame was decoded during the last statusPollInterval and
\* no VFO-frequency get is pending.
C27_Step ==
    (lastOp'.op = "loopPoll" /\ (Requested(<<37, 0>>) \/ Requested(<<37, 1>>))) =>
        /\ civ.vfoFreqFrameAge >= statusPollInterval
        /\ ~civ.cmds["getMainVFOFreq"].pending
        /\ ~civ.cmds["getSubVFOFreq"].pending

C27_FreshFreqSuppressesPoll == [][C27_Step]_vars

\* C28: a poll tick while transmitting (ptt or tune) requests no S-meter and
\* no OVF, and requests SWR when getSWR is not pending and no SWR reading
\* arrived within statusPollInterval; a poll tick while not transmitting
\* requests no SWR, and requests S-meter and OVF each under the same two
\* conditions; so nothing is requested while its own get is pending.
C28_Step ==
    lastOp'.op = "loopPoll" =>
        LET due(n, since) == ~civ.cmds[n].pending /\ since >= statusPollInterval
        IN /\ IF civ.ptt \/ civ.tune
              THEN /\ ~Requested(<<21, 2>>)
                   /\ ~Requested(<<26, 9>>)
                   /\ Requested(<<21, 18>>) <=> due("getSWR", civ.sinceSWR)
              ELSE /\ ~Requested(<<21, 18>>)
                   /\ Requested(<<21, 2>>) <=> due("getS", civ.sinceS)
                   /\ Requested(<<26, 9>>) <=> due("getOVF", civ.sinceOVF)
           /\ Requested(<<21, 18>>) => ~civ.cmds["getSWR"].pending
           /\ Requested(<<21, 2>>) => ~civ.cmds["getS"].pending
           /\ Requested(<<26, 9>>) => ~civ.cmds["getOVF"].pending

IsLogin(p) == Len(p) = 128 /\ p[1] = 128
IsAuth(p, magic) == Len(p) = 64 /\ p[1] = 64 /\ p[22] = magic
IsRequest(p) == Len(p) = 144 /\ p[1] = 144

EmitsLogin(c) == \E i \in 1..Len(c.sent) : IsLogin(c.sent[i])
EmitsAuth(c, magic) == \E i \in 1..Len(c.sent) : IsAuth(c.sent[i], magic)
EmitsRequest(c) == \E i \in 1..Len(c.sent) : IsRequest(c.sent[i])

\* C29 as stated: the serial/audio request comes after the second auth, so a
\* step that emits the request finds the second auth timer fired.
C29_RequestStep ==
    (ctl' # ctl /\ EmitsRequest(ctl')) => ctl.secondAuthTimer = "fired"

C29_RequestAfterSecondAuth == [][C29_RequestStep]_vars

C29_Step ==
    (ctl' # ctl) =>
        /\ EmitsLogin(ctl') =>
               /\ ctl'.op.op = "start"
               /\ ctl.pc = "idle"
               /\ IsLogin(ctl'.sent[1])
        /\ EmitsAuth(ctl', 2) =>
               /\ ctl'.op.op = "start"
               /\ Len(ctl'.op.arg) = 96
               /\ SubSeq(ctl'.op.arg, 49, 52) # <<255, 255, 255, 254>>
               /\ ctl'.authID = SubSeq(ctl'.op.arg, 27, 32)
               /\ Len(ctl'.sent) = 4
               /\ IsLogin(ctl'.sent[1]) /\ IsLogin(ctl'.sent[2])
               /\ IsAuth(ctl'.sent[3], 2) /\ IsAuth(ctl'.sent[4], 2)
        /\ EmitsAuth(ctl', 5) =>
               /\ ctl.pc \in {"running", "deinit"}
               /\ ~EmitsLogin(ctl') /\ ~EmitsAuth(ctl', 2)
        /\ EmitsRequest(ctl') =>
               /\ ctl'.op.op = "read"
               /\ ctl.pc \in {"running", "deinit"}
               /\ Len(ctl'.op.arg) = 64
               /\ ctl'.op.arg[22] = 5
               /\ ~ctl.serialAndAudioStreamOpened
               /\ ~EmitsLogin(ctl') /\ ~EmitsAuth(ctl', 2)

\* C29: the login is the first packet of a connection; the first auth is
\* sent only in the start that got a login response without the rejection
\* marker, right after the login; a second auth is sent only after that; and
\* the serial/audio request is sent only by the read of a 64-byte reply whose
\* byte 21 is 0x05, while the serial/audio streams are not opened.
C29_ControlOrder == [][C29_Step]_vars

\* A request emitted after login, first auth and second auth.
C29_Witness ==
    /\ ctl.op.op = "read"
    /\ EmitsRequest(ctl)
    /\ ctl.secondAuthTimer = "fired"
    /\ ~ctl.serialAndAudioStreamOpened

\* The pkt6 the session sends and the acknowledgement the radio answers.
IsPkt6(p) == Len(p) = 16 /\ SubSeq(p, 1, 6) = <<16, 0, 0, 0, 6, 0>>
Pkt6Ack == <<16, 0, 0, 0, 6, 0, 1, 0>> \o remoteSID \o localSID

\* C30: a step of the inline session that sends the login packet has read
\* the pkt6 acknowledgement, does not send the pkt6 itself, and finds the
\* remote session id already delivered by a pkt4; the login carries it.
C30_Step ==
    (m' # m /\ \E i \in 1..Len(m'.sent) : IsLogin(m'.sent[i])) =>
        /\ m'.remoteSID # Zeros(4)
        /\ \A i \in 1..Len(m'.sent) :
               IsLogin(m'.sent[i]) => SubSeq(m'.sent[i], 13, 16) = m'.remoteSID
        /\ m.remoteSID # Zeros(4)
        /\ m'.op.arg = Pkt6Ack
        /\ \A i \in 1..Len(m'.sent) : ~IsPkt6(m'.sent[i])

C30_LoginAfterPkt6Ack == [][C30_Step]_vars

\* The sequence number a pkt7 carries in its bytes 6 and 7, low byte first.
Seq16(p) == p[7] + 256 * p[8]

OwnPkt7Sent ==
    /\ m' # m
    /\ Len(m'.sent) > 0
    /\ \E randID \in RandID4s : m'.sent[Len(m'.sent)] = pkt7Own(m, randID)

\* C31: every heartbeat the session sends carries the 16-bit sequence that
\* follows the one of the heartbeat before: the counter goes up by one per
\* heartbeat, modulo 2^16.
C31_Step ==
    OwnPkt7Sent =>
        /\ Seq16(m'.sent[Len(m'.sent)]) = m.sendSeq
        /\ m'.sendSeq = (m.sendSeq + 1) % 65536

C31_SendSeq16 == [][C31_Step]_vars

IsPkt7In(r) == Len(r) = 21 /\ SubSeq(r, 2, 6) = <<0, 0, 0, 7, 0>>

\* C32: an iteration that reads a pkt7 stays in the loop without a fatal
\* error, answers the pkt7, stores its sequence as the last received one, and
\* logs packet loss exactly when an earlier pkt7 was received and the new
\* sequence is not that one's plus one modulo 256.
C32_Step ==
    (m'.op.op = "read" /\ m' # m /\ IsPkt7In(m'.op.arg)) =>
        LET r == m'.op.arg
        IN /\ m'.pc = "loop"
           /\ m'.fatal = ""
           /\ Len(m'.sent) >= 1
           /\ m'.sent[1] = pkt7Reply(m, r)
           /\ m'.lastReceivedSeq = r[7]
           /\ m'.receivedSeq
           /\ m'.lossLogged <=>
                  (m.receivedSeq /\ r[7] # (m.lastReceivedSeq + 1) % 256)

C33_OnePttTimer == Len(civ.pttTimers) <= 1

\* C34: a decode step that takes state.tune from true to false finds
\* tuneTimeoutTimer armed before (not nil).
C34_Step ==
    (lastOp'.op = "decode" /\ civ.tune /\ ~civ'.tune) =>
        civ.tuneTimeoutTimer # "nil"

C34_TuneOffHasTimer == [][C34_Step]_vars

\* The frame d answers the command frame cmd: the same command byte and,
\* for the commands that carry one (0x15, 0x1C, 0x25), the same sub-command
\* or selector byte.
Corresponds(cmd, d) ==
    /\ Len(cmd) >= 6 /\ Len(d) >= 6
    /\ d[5] = cmd[5]
    /\ cmd[5] \in {21, 28, 37} => (Len(d) >= 7 /\ d[6] = cmd[6])

\* C35: a decode step removes at most one command from the pending state,
\* and only one whose command frame the decoded frame answers.
C35_Step ==
    (lastOp'.op = "decode") =>
        /\ Cardinality(Cleared) <= 1
        /\ \A n \in Cleared : Corresponds(civ.cmds[n].cmd, lastOp'.arg)

C35_ClearedByOwnReply == [][C35_Step]_vars

WellFramed(d) ==
    Len(d) >= 6 /\ d[1] = 254 /\ d[2] = 254 /\ d[Len(d)] = 253

\* C36: decoding a frame with valid sentinels and at least 6 bytes returns a
\* boolean without an out-of-range access, and a frame that ends right after
\* its command byte leaves the device state as it was.
C36_Step ==
    (lastOp'.op = "decode" /\ WellFramed(lastOp'.arg)) =>
        /\ ~civ'.panicked
        /\ ret' \in {"true", "false"}
        /\ Len(lastOp'.arg) = 6 =>
               /\ civ'.cmds = civ.cmds
               /\ civ'.pendingCmds = civ.pendingCmds
               /\ civ'.freq = civ.freq
               /\ civ'.tsValue = civ.tsValue
               /\ civ'.ptt = civ.ptt
               /\ civ'.sStr = civ.sStr

C36_DecodeNeverOutOfRange == [][C36_Step]_vars

\* C37: when time keeps passing, a running engine with a command pending
\* gets to its poll branch, unless the table empties first.
C37_PollNotStarved ==
    ([]<>(lastOp.op = "tick")) =>
        ((civ.st /\ civ.pendingCmds # <<>>) ~>
            (lastOp.op = "loopPoll" \/ civ.pendingCmds = <<>>))

\* C38: between the steps, a command slot is pending exactly when it is an
\* element of pendingCmds.
C38_PendingIffListed ==
    \A n \in CmdNames :
        civ.cmds[n].pending <=>
            \E i \in 1..Len(civ.pendingCmds) : civ.pendingCmds[i] = n

====
